---- MODULE Spec2Model ----
(***************************************************************************)
(* A model of libisg: the ISG 2.0 reader (src/src/token.rs,                *)
(* src/src/parse.rs), writer (src/src/display.rs) and validator            *)
(* (src/src/validation.rs).                                                *)
(*                                                                         *)
(* Text is a sequence of characters.  A character is a one-letter string,  *)
(* or one of the names "LF" (line feed), "CR" (carriage return), "TAB",    *)
(* "DQ" (the double quote), "DEG" (the degree sign, two bytes in UTF-8)    *)
(* and "EAC" (a two-byte letter such as e-acute).  Rust slices strings by  *)
(* BYTE offsets and panics when an offset is not a character boundary, so  *)
(* the model keeps byte widths apart from character counts.                *)
(*                                                                         *)
(* An Option is a sequence of length at most one: None is << >> and        *)
(* Some(x) is <<x>>.                                                       *)
(***************************************************************************)
EXTENDS Integers, Sequences, FiniteSets, TLC

None == << >>
Some(x) == <<x>>
IsSome(o) == Len(o) = 1
Unwrap(o) == o[1]

(***************************************************************************)
(* Strings (std::str), by what the calls used in the sources do.           *)
(***************************************************************************)
TwoByteChars == {"DEG", "EAC"}
CharLen(c) == IF c \in TwoByteChars THEN 2 ELSE 1

RECURSIVE ByteLen(_)
ByteLen(s) == IF s = << >> THEN 0 ELSE CharLen(Head(s)) + ByteLen(Tail(s))

\* byte offset of the k-th character boundary of s (k characters precede it)
ByteOf(s, k) == ByteLen(SubSeq(s, 1, k))

\* number of characters before byte offset b, or -1 when b is not a
\* character boundary of s (then &s[..b] and &s[b..] panic)
RECURSIVE CharsWalk(_, _, _, _)
CharsWalk(s, b, k, at) ==
    IF at = b THEN k
    ELSE IF at > b \/ k >= Len(s) THEN -1
    ELSE CharsWalk(s, b, k + 1, at + CharLen(s[k + 1]))
CharIndex(s, b) == CharsWalk(s, b, 0, 0)

\* char::is_whitespace over the model's alphabet
WhiteSpace == {" ", "TAB", "CR", "LF"}

RECURSIVE TrimStart(_)
TrimStart(s) ==
    IF s # << >> /\ Head(s) \in WhiteSpace THEN TrimStart(Tail(s)) ELSE s
RECURSIVE TrimEnd(_)
TrimEnd(s) ==
    IF s # << >> /\ s[Len(s)] \in WhiteSpace
    THEN TrimEnd(SubSeq(s, 1, Len(s) - 1)) ELSE s
\* str::trim
Trim(s) == TrimEnd(TrimStart(s))

\* str::starts_with
StartsWith(s, p) == Len(s) >= Len(p) /\ SubSeq(s, 1, Len(p)) = p

\* index (1-based, in characters) of the first character of s in set cs, 0 if none
FindIn(s, cs) ==
    IF \E i \in 1..Len(s) : s[i] \in cs
    THEN CHOOSE i \in 1..Len(s) : s[i] \in cs /\ \A j \in 1..(i - 1) : s[j] \notin cs
    ELSE 0
\* index of the first / last character of s that is not a space, 0 if none
FindNonSpace(s) ==
    IF \E i \in 1..Len(s) : s[i] # " "
    THEN CHOOSE i \in 1..Len(s) : s[i] # " " /\ \A j \in 1..(i - 1) : s[j] = " "
    ELSE 0
RFindNonSpace(s) ==
    IF \E i \in 1..Len(s) : s[i] # " "
    THEN CHOOSE i \in 1..Len(s) : s[i] # " " /\ \A j \in (i + 1)..Len(s) : s[j] = " "
    ELSE 0

\* str::split_once(c): <<before, after>> in an Option
SplitOnce(s, c) ==
    LET i == FindIn(s, {c})
    IN  IF i = 0 THEN None ELSE Some(<<SubSeq(s, 1, i - 1), SubSeq(s, i + 1, Len(s))>>)

\* str::lines: the text is cut after every "LF"; a "CR" right before that
\* "LF" is dropped with it; no empty line follows a final "LF"
LineEnds(t) == {i \in 1..Len(t) : t[i] = "LF"}
LineStarts(t) == IF t = << >> THEN {} ELSE {1} \cup {i + 1 : i \in LineEnds(t) \ {Len(t)}}
LineAt(t, st) ==
    LET nl  == {i \in LineEnds(t) : i >= st}
        en  == IF nl = {} THEN Len(t) + 1 ELSE CHOOSE i \in nl : \A j \in nl : i <= j
        raw == SubSeq(t, st, en - 1)
    IN  IF nl # {} /\ raw # << >> /\ raw[Len(raw)] = "CR"
        THEN SubSeq(raw, 1, Len(raw) - 1) ELSE raw
Lines(t) ==
    LET ss == LineStarts(t)
    IN  [k \in 1..Cardinality(ss) |->
            LineAt(t, CHOOSE st \in ss : Cardinality({x \in ss : x < st}) = k - 1)]

(***************************************************************************)
(* Numbers.  An f64 is kept as an exact decimal [neg, int, frac] with frac *)
(* in millionths; the literals of the model have at most six fraction      *)
(* digits and no exponent, for which the decimal is the value read.        *)
(***************************************************************************)
Digits == {"0", "1", "2", "3", "4", "5", "6", "7", "8", "9"}
DigitVal(c) ==
    CASE c = "0" -> 0 [] c = "1" -> 1 [] c = "2" -> 2 [] c = "3" -> 3 [] c = "4" -> 4
      [] c = "5" -> 5 [] c = "6" -> 6 [] c = "7" -> 7 [] c = "8" -> 8 [] c = "9" -> 9
DigitChar(n) ==
    CASE n = 0 -> "0" [] n = 1 -> "1" [] n = 2 -> "2" [] n = 3 -> "3" [] n = 4 -> "4"
      [] n = 5 -> "5" [] n = 6 -> "6" [] n = 7 -> "7" [] n = 8 -> "8" [] n = 9 -> "9"
AllDigits(s) == s # << >> /\ \A i \in 1..Len(s) : s[i] \in Digits
RECURSIVE NatOf(_)
NatOf(s) == IF s = << >> THEN 0 ELSE NatOf(SubSeq(s, 1, Len(s) - 1)) * 10 + DigitVal(s[Len(s)])
RECURSIVE NatStr(_)
NatStr(n) == IF n < 10 THEN <<DigitChar(n)>> ELSE NatStr(n \div 10) \o <<DigitChar(n % 10)>>
RECURSIVE Pow10(_)
Pow10(k) == IF k = 0 THEN 1 ELSE 10 * Pow10(k - 1)
Repeat(c, n) == [i \in 1..n |-> c]
\* left-pad with spaces to a width counted in characters, as format!("{:>w}")
PadLeft(s, w) == IF Len(s) >= w THEN s ELSE Repeat(" ", w - Len(s)) \o s
\* left-pad with zeros, as format!("{:0w}") of an unsigned integer
ZeroPad(s, w) == IF Len(s) >= w THEN s ELSE Repeat("0", w - Len(s)) \o s

\* impl FromStr for HeaderField / impl Display for HeaderField: the key texts
KeyText(f) ==
    CASE f = "ModelName" -> <<"m", "o", "d", "e", "l", " ", "n", "a", "m", "e">>
      [] f = "ModelYear" -> <<"m", "o", "d", "e", "l", " ", "y", "e", "a", "r">>
      [] f = "ModelType" -> <<"m", "o", "d", "e", "l", " ", "t", "y", "p", "e">>
      [] f = "DataType" -> <<"d", "a", "t", "a", " ", "t", "y", "p", "e">>
      [] f = "DataUnits" -> <<"d", "a", "t", "a", " ", "u", "n", "i", "t", "s">>
      [] f = "DataFormat" -> <<"d", "a", "t", "a", " ", "f", "o", "r", "m", "a", "t">>
      [] f = "DataOrdering" -> <<"d", "a", "t", "a", " ", "o", "r", "d", "e", "r", "i", "n", "g">>
      [] f = "RefEllipsoid" -> <<"r", "e", "f", " ", "e", "l", "l", "i", "p", "s", "o", "i", "d">>
      [] f = "RefFrame" -> <<"r", "e", "f", " ", "f", "r", "a", "m", "e">>
      [] f = "HeightDatum" -> <<"h", "e", "i", "g", "h", "t", " ", "d", "a", "t", "u", "m">>
      [] f = "TideSystem" -> <<"t", "i", "d", "e", " ", "s", "y", "s", "t", "e", "m">>
      [] f = "CoordType" -> <<"c", "o", "o", "r", "d", " ", "t", "y", "p", "e">>
      [] f = "CoordUnits" -> <<"c", "o", "o", "r", "d", " ", "u", "n", "i", "t", "s">>
      [] f = "MapProjection" -> <<"m", "a", "p", " ", "p", "r", "o", "j", "e", "c", "t", "i", "o", "n">>
      [] f = "EpsgCode" -> <<"E", "P", "S", "G", " ", "c", "o", "d", "e">>
      [] f = "LatMin" -> <<"l", "a", "t", " ", "m", "i", "n">>
      [] f = "LatMax" -> <<"l", "a", "t", " ", "m", "a", "x">>
      [] f = "LonMin" -> <<"l", "o", "n", " ", "m", "i", "n">>
      [] f = "LonMax" -> <<"l", "o", "n", " ", "m", "a", "x">>
      [] f = "NorthMin" -> <<"n", "o", "r", "t", "h", " ", "m", "i", "n">>
      [] f = "NorthMax" -> <<"n", "o", "r", "t", "h", " ", "m", "a", "x">>
      [] f = "EastMin" -> <<"e", "a", "s", "t", " ", "m", "i", "n">>
      [] f = "EastMax" -> <<"e", "a", "s", "t", " ", "m", "a", "x">>
      [] f = "DeltaLat" -> <<"d", "e", "l", "t", "a", " ", "l", "a", "t">>
      [] f = "DeltaLon" -> <<"d", "e", "l", "t", "a", " ", "l", "o", "n">>
      [] f = "DeltaNorth" -> <<"d", "e", "l", "t", "a", " ", "n", "o", "r", "t", "h">>
      [] f = "DeltaEast" -> <<"d", "e", "l", "t", "a", " ", "e", "a", "s", "t">>
      [] f = "NRows" -> <<"n", "r", "o", "w", "s">>
      [] f = "NCols" -> <<"n", "c", "o", "l", "s">>
      [] f = "NoData" -> <<"n", "o", "d", "a", "t", "a">>
      [] f = "CreationDate" -> <<"c", "r", "e", "a", "t", "i", "o", "n", " ", "d", "a", "t", "e">>
      [] f = "IsgFormat" -> <<"I", "S", "G", " ", "f", "o", "r", "m", "a", "t">>

HeaderFields ==
    {"ModelName", "ModelYear", "ModelType", "DataType", "DataUnits", "DataFormat", "DataOrdering",
     "RefEllipsoid", "RefFrame", "HeightDatum", "TideSystem", "CoordType", "CoordUnits",
     "MapProjection", "EpsgCode", "LatMin", "LatMax", "LonMin", "LonMax", "NorthMin",
     "NorthMax", "EastMin", "EastMax", "DeltaLat", "DeltaLon", "DeltaNorth", "DeltaEast", "NRows",
     "NCols", "NoData", "CreationDate", "IsgFormat"}

ModelTypeNames ==
    {<<<<"g", "r", "a", "v", "i", "m", "e", "t", "r", "i", "c">>, "Gravimetric">>,
     <<<<"g", "e", "o", "m", "e", "t", "r", "i", "c">>, "Geometric">>,
     <<<<"h", "y", "b", "r", "i", "d">>, "Hybrid">>}
DataTypeNames ==
    {<<<<"g", "e", "o", "i", "d">>, "Geoid">>,
     <<<<"q", "u", "a", "s", "i", "-", "g", "e", "o", "i", "d">>, "QuasiGeoid">>}
DataUnitsNames ==
    {<<<<"m", "e", "t", "e", "r", "s">>, "Meters">>,
     <<<<"f", "e", "e", "t">>, "Feet">>}
DataFormatNames ==
    {<<<<"g", "r", "i", "d">>, "Grid">>,
     <<<<"s", "p", "a", "r", "s", "e">>, "Sparse">>}
DataOrderingNames ==
    {<<<<"N", "-", "t", "o", "-", "S", ",", " ", "W", "-", "t", "o", "-", "E">>, "N2SW2E">>,
     <<<<"l", "a", "t", ",", " ", "l", "o", "n", ",", " ", "N">>, "LatLonN">>,
     <<<<"e", "a", "s", "t", ",", " ", "n", "o", "r", "t", "h", ",", " ", "N">>, "EastNorthN">>,
     <<<<"N">>, "N">>,
     <<<<"z", "e", "t", "a">>, "Zeta">>}
TideSystemNames ==
    {<<<<"t", "i", "d", "e", "-", "f", "r", "e", "e">>, "TideFree">>,
     <<<<"m", "e", "a", "n", "-", "t", "i", "d", "e">>, "MeanTide">>,
     <<<<"z", "e", "r", "o", "-", "t", "i", "d", "e">>, "ZeroTide">>}
CoordTypeNames ==
    {<<<<"g", "e", "o", "d", "e", "t", "i", "c">>, "Geodetic">>,
     <<<<"p", "r", "o", "j", "e", "c", "t", "e", "d">>, "Projected">>}
CoordUnitsNames ==
    {<<<<"d", "m", "s">>, "DMS">>,
     <<<<"d", "e", "g">>, "Deg">>,
     <<<<"m", "e", "t", "e", "r", "s">>, "Meters">>,
     <<<<"f", "e", "e", "t">>, "Feet">>}


\* the digits of f64::from_str: ip before the point and fp after it
F64Digits(neg, ip, fp) ==
    IF /\ \A i \in 1..Len(ip) : ip[i] \in Digits
       /\ \A i \in 1..Len(fp) : fp[i] \in Digits
       /\ (ip # << >> \/ fp # << >>)
    THEN Some([neg |-> neg, int |-> NatOf(ip),
               frac |-> NatOf(SubSeq(fp \o Repeat("0", 6), 1, 6))])
    ELSE None
\* the text of f64::from_str after its sign, with the place of its point
F64Point(neg, body, dot) ==
    F64Digits(neg,
              IF dot = 0 THEN body ELSE SubSeq(body, 1, dot - 1),
              IF dot = 0 THEN << >> ELSE SubSeq(body, dot + 1, Len(body)))
F64Unsigned(neg, body) == F64Point(neg, body, FindIn(body, {"."}))
\* f64::from_str over the model's alphabet: [+-] digits [. digits] or
\* [+-] . digits; the texts of the model hold no exponent, "inf" or "nan"
F64FromStr(s) ==
    F64Unsigned(s # << >> /\ s[1] = "-",
                IF s # << >> /\ s[1] \in {"+", "-"} THEN Tail(s) ELSE s)

\* f64 == f64 (PartialEq): the two zeros are equal
F64Eq(a, b) ==
    /\ a.int = b.int
    /\ a.frac = b.frac
    /\ (a.neg = b.neg \/ (a.int = 0 /\ a.frac = 0))

\* format!("{:.p}", v): v rounded to p fraction digits (1 <= p <= 6).  The
\* numbers of the model are never halfway between two neighbours.
F64Fixed(v, p) ==
    LET unit == Pow10(6 - p)
        q0   == v.frac \div unit
        up   == 2 * (v.frac % unit) >= unit
        q1   == IF up THEN q0 + 1 ELSE q0
        cy   == q1 = Pow10(p)
        ip   == IF cy THEN v.int + 1 ELSE v.int
        q    == IF cy THEN 0 ELSE q1
    IN  (IF v.neg THEN <<"-">> ELSE << >>) \o NatStr(ip) \o <<".">> \o ZeroPad(NatStr(q), p)

RECURSIVE StripZeros(_)
StripZeros(s) ==
    IF s # << >> /\ s[Len(s)] = "0" THEN StripZeros(SubSeq(s, 1, Len(s) - 1)) ELSE s
\* f64::to_string: the shortest text that reads back as v
F64ToString(v) ==
    LET fr == StripZeros(ZeroPad(NatStr(v.frac), 6))
    IN  (IF v.neg THEN <<"-">> ELSE << >>) \o NatStr(v.int)
        \o (IF fr = << >> THEN << >> ELSE <<".">> \o fr)

UIntInRange(body, max) ==
    IF AllDigits(body) /\ Len(body) <= 9 /\ NatOf(body) <= max
    THEN Some(NatOf(body)) ELSE None
\* usize / u8 / u16 ::from_str: an optional '+', then digits, within range
UIntFromStr(s, max) ==
    UIntInRange(IF s # << >> /\ s[1] = "+" THEN Tail(s) ELSE s, max)

IntInRange(neg, body, min, max) ==
    IF /\ AllDigits(body)
       /\ Len(body) <= 9
       /\ (IF neg THEN 0 - NatOf(body) >= min ELSE NatOf(body) <= max)
    THEN Some(IF neg THEN 0 - NatOf(body) ELSE NatOf(body)) ELSE None
\* i16::from_str: an optional sign, then digits, within range
IntFromStr(s, min, max) ==
    IntInRange(s # << >> /\ s[1] = "-",
               IF s # << >> /\ s[1] \in {"+", "-"} THEN Tail(s) ELSE s, min, max)

\* i16 / u8 / u16 / usize Display
IntToString(n) == IF n < 0 THEN <<"-">> \o NatStr(0 - n) ELSE NatStr(n)

Ok(v) == [ok |-> TRUE, val |-> v]
Err(e) == [ok |-> FALSE, err |-> e]

\* ParseValueError::new
ParseValueError(s) == [value |-> s]

\* the FromStr impls of the closed enumerations: an exact match or an error
EnumFromStr(names, s) ==
    IF \E p \in names : p[1] = s
    THEN Ok((CHOOSE p \in names : p[1] = s)[2])
    ELSE Err(ParseValueError(s))
\* the Display impls of the closed enumerations
EnumToString(names, v) == (CHOOSE p \in names : p[2] = v)[1]

\* impl FromStr for HeaderField
HeaderFieldFromStr(s) ==
    IF \E f \in HeaderFields : KeyText(f) = s
    THEN Ok(CHOOSE f \in HeaderFields : KeyText(f) = s)
    ELSE Err(ParseValueError(s))

Dec(v) == [tag |-> "Dec", value |-> v]
DMS(d, m, s) == [tag |-> "DMS", degree |-> d, minutes |-> m, second |-> s]

\* the end of Coord::from_str: sec and rest come from the third split_once
DMSFields(sec, rest, degree, minutes, second) ==
    IF rest # << >> THEN Err(ParseValueError(sec))
    ELSE IF ~IsSome(degree) THEN Err(ParseValueError(sec))
    ELSE IF ~IsSome(minutes) THEN Err(ParseValueError(sec))
    ELSE IF ~IsSome(second) THEN Err(ParseValueError(sec))
    ELSE Ok(DMS(Unwrap(degree), Unwrap(minutes), Unwrap(second)))
\* DMSSeconds with minutes and seconds bounded by 59
DMSSeconds_sexagesimal(s, d, m, c) ==
    IF ~IsSome(c) THEN Err(ParseValueError(s))
    ELSE DMSFields(Unwrap(c)[1], Unwrap(c)[2], IntFromStr(d, -32768, 32767),
                   UIntFromStr(m, 59), UIntFromStr(Unwrap(c)[1], 59))
\* c is rest.split_once('"')
DMSSeconds(s, d, m, c) ==
    IF ~IsSome(c) THEN Err(ParseValueError(s))
    ELSE DMSFields(Unwrap(c)[1], Unwrap(c)[2], IntFromStr(d, -32768, 32767),
                   UIntFromStr(m, 255), UIntFromStr(Unwrap(c)[1], 255))
\* b is rest.split_once('\'')
DMSMinutes(s, d, b) ==
    IF ~IsSome(b) THEN Err(ParseValueError(s))
    ELSE DMSSeconds(s, d, Unwrap(b)[1], SplitOnce(Unwrap(b)[2], "DQ"))
\* a is s.split_once('°')
DMSDegree(s, a) ==
    IF ~IsSome(a) THEN Err(ParseValueError(s))
    ELSE DMSMinutes(s, Unwrap(a)[1], SplitOnce(Unwrap(a)[2], "'"))
\* f is s.parse::<f64>()
DecOrDMS(s, f) ==
    IF IsSome(f) THEN Ok(Dec(Unwrap(f))) ELSE DMSDegree(s, SplitOnce(s, "DEG"))
\* impl FromStr for Coord.  After the third split_once the name s is bound
\* to the seconds part, so the later errors carry the seconds text.
CoordFromStr(s) == DecOrDMS(s, F64FromStr(s))

RECURSIVE SplitAll(_, _)
\* str::split(c) collected
SplitAll(s, c) ==
    LET p == SplitOnce(s, c)
    IN  IF IsSome(p) THEN <<Unwrap(p)[1]>> \o SplitAll(Unwrap(p)[2], c) ELSE <<s>>

CreationDateOfParts(s, year, month, day) ==
    IF ~IsSome(year) \/ ~IsSome(month) \/ ~IsSome(day) THEN Err(ParseValueError(s))
    ELSE Ok([year |-> Unwrap(year), month |-> Unwrap(month), day |-> Unwrap(day)])
CreationDateParts(s, parts) ==
    IF Len(parts) # 3 THEN Err(ParseValueError(s))
    ELSE CreationDateOfParts(s, UIntFromStr(parts[3], 65535), UIntFromStr(parts[2], 255),
                             UIntFromStr(parts[1], 255))
\* impl FromStr for CreationDate
CreationDateFromStr(s) == CreationDateParts(s, SplitAll(s, "/"))

\* CoordUnits::check, and the is_valid_angle / is_valid_coord closures
CoordUnitsCheck(coord_units, coord) ==
    IF coord_units = "DMS" THEN coord.tag = "DMS" ELSE coord.tag = "Dec"

BEGIN_OF_HEAD == <<"b", "e", "g", "i", "n", "_", "o", "f", "_", "h", "e", "a", "d">>
END_OF_HEADER == <<"e", "n", "d", "_", "o", "f", "_", "h", "e", "a", "d">>
PLACEHOLDER == <<"-", "-", "-">>

(***************************************************************************)
(* Errors (src/src/error.rs).  span and lineno are Options.                *)
(***************************************************************************)
missing_boh == [kind |-> "MissingBeginOfHead", span |-> None, lineno |-> None]
missing_eoh == [kind |-> "MissingEndOfHead", span |-> None, lineno |-> None]
missing_sep(span, lineno) ==
    [kind |-> "MissingSeparator", span |-> Some(span), lineno |-> Some(lineno)]
dup_header(field, token) ==
    [kind |-> "DuplicatedHeaderKey", field |-> field,
     span |-> Some(token.span), lineno |-> Some(token.lineno)]
unknown_header_key(token) ==
    [kind |-> "UnknownHeaderKey", value |-> token.value,
     span |-> Some(token.span), lineno |-> Some(token.lineno)]
missing_header(field) ==
    [kind |-> "MissingHeaderKey", field |-> field, span |-> None, lineno |-> None]
from_parse_value_err(e, field, token) ==
    [kind |-> "InvalidHeaderValue", field |-> field, source |-> Some(e),
     span |-> Some(token.span), lineno |-> Some(token.lineno)]
invalid_header_value(field, token) ==
    from_parse_value_err(ParseValueError(token.value), field, token)
\* invalid_data_bounds built by ParseError::new, without the line
invalid_data_bounds_unplaced(key, coord_type, token) ==
    [kind |-> "InvalidDataBounds", field |-> key, coord_type |-> coord_type,
     span |-> None, lineno |-> None]
invalid_data_bounds(key, coord_type, token) ==
    [kind |-> "InvalidDataBounds", field |-> key, coord_type |-> coord_type,
     span |-> None, lineno |-> Some(token.lineno)]
invalid_data(token) ==
    [kind |-> "InvalidData", value |-> token.value,
     span |-> Some(token.span), lineno |-> Some(token.lineno)]
too_short_data(direction, expected, lineno) ==
    [kind |-> "InvalidDataLength", length |-> "Short", direction |-> direction,
     expected |-> expected, span |-> None, lineno |-> Some(lineno)]
too_long_data(direction, expected, lineno) ==
    [kind |-> "InvalidDataLength", length |-> "Long", direction |-> direction,
     expected |-> expected, span |-> None, lineno |-> Some(lineno)]
\* a panic of the process (a slice off a character boundary), kept apart
\* from every ParseError
Panicked == [kind |-> "Panic"]

(***************************************************************************)
(* The tokenizer (src/src/token.rs).  ls is the Lines iterator's content   *)
(* and idx the number of lines it has yielded; line k has lineno k.        *)
(***************************************************************************)
Token(value, span, lineno) == [value |-> value, span |-> span, lineno |-> lineno]

RECURSIVE CommentChars(_, _)
\* chars += line.len() + 1 over the first n lines
CommentChars(ls, n) ==
    IF n = 0 THEN 0 ELSE CommentChars(ls, n - 1) + ByteLen(ls[n]) + 1

\* BeginLine looking for begin_of_head after the line's leading spaces
BeginLine_trimmed(ls) ==
    IF \E k \in 1..Len(ls) : StartsWith(TrimStart(ls[k]), BEGIN_OF_HEAD)
    THEN CHOOSE k \in 1..Len(ls) :
            /\ StartsWith(TrimStart(ls[k]), BEGIN_OF_HEAD)
            /\ \A j \in 1..(k - 1) : ~StartsWith(TrimStart(ls[j]), BEGIN_OF_HEAD)
    ELSE 0
\* index of the first line that starts with begin_of_head, 0 if none
BeginLine(ls) ==
    IF \E k \in 1..Len(ls) : StartsWith(ls[k], BEGIN_OF_HEAD)
    THEN CHOOSE k \in 1..Len(ls) :
            /\ StartsWith(ls[k], BEGIN_OF_HEAD)
            /\ \A j \in 1..(k - 1) : ~StartsWith(ls[j], BEGIN_OF_HEAD)
    ELSE 0

\* Tokenizer::tokenize_comment: Ok([comment, idx]) with idx the lines consumed
tokenize_comment(str, ls) ==
    LET b     == BeginLine(ls)
        chars == CommentChars(ls, b - 1)
        cut   == CharIndex(str, chars)
    IN  IF b = 0 THEN Err(missing_boh)
        ELSE IF cut < 0 THEN Err(Panicked)
        ELSE Ok([comment |-> SubSeq(str, 1, cut), idx |-> b - 1])

\* Tokenizer::tokenize_begin_of_header
tokenize_begin_of_header(ls, idx) ==
    IF idx >= Len(ls) THEN Err(missing_boh)
    ELSE IF StartsWith(ls[idx + 1], BEGIN_OF_HEAD)
    THEN Ok(Token(ls[idx + 1], <<0, ByteLen(ls[idx + 1])>>, idx + 1))
    ELSE Err(missing_boh)

\* HeaderPart without the trim of the slice
HeaderPart_untrimmed(slice, base, lineno) ==
    Token(slice, <<base, base + ByteLen(slice)>>, lineno)
\* the key or the value of a header line: slice begins at byte offset base
\* of its line
HeaderPart(slice, base, lineno) ==
    LET st == FindNonSpace(slice)
        en == RFindNonSpace(slice)
    IN  IF st # 0 /\ en # 0
        THEN Token(Trim(slice),
                   <<base + ByteOf(slice, st - 1), base + ByteOf(slice, en - 1) + 1>>,
                   lineno)
        ELSE Token(slice, <<base, base + ByteLen(slice)>>, lineno)

\* Tokenizer::tokenize_header: Ok(None) at the end_of_head line, else
\* Ok(Some(<<key, sep, value>>)); the line is consumed only in the latter case
tokenize_header(ls, idx) ==
    IF idx >= Len(ls) THEN Err(missing_eoh)
    ELSE LET line == ls[idx + 1]
             p    == FindIn(line, {":", "="})
             pos  == ByteOf(line, p - 1)
         IN  IF StartsWith(line, END_OF_HEADER) THEN Ok(None)
             ELSE IF p = 0 THEN Err(missing_sep(<<0, ByteLen(line)>>, idx + 1))
             ELSE Ok(Some(<<HeaderPart(SubSeq(line, 1, p - 1), 0, idx + 1),
                            Token(<<line[p]>>, <<pos, pos + 1>>, idx + 1),
                            HeaderPart(SubSeq(line, p + 1, Len(line)), pos + 1, idx + 1)>>))

\* Tokenizer::tokenize_end_of_header
tokenize_end_of_header(ls, idx) ==
    IF idx >= Len(ls) THEN Err(missing_eoh)
    ELSE IF StartsWith(ls[idx + 1], END_OF_HEADER)
    THEN Ok(Token(ls[idx + 1], <<0, ByteLen(ls[idx + 1])>>, idx + 1))
    ELSE Err(missing_eoh)

\* the rest of DataColumnIterator::next: from is the character index of the
\* byte offset pos (negative off a character boundary), slice is line[pos..]
DataColumnToken(line, lineno, pos, from, slice) ==
    LET hits == {k \in 1..Len(slice) :
                    slice[k] = " " /\ \E j \in 1..(k - 1) : slice[j] # " "}
        columns == (CHOOSE k \in hits : \A j \in hits : k <= j) - 1
        cut == CharIndex(slice, columns)
    IN  IF from < 0 THEN [kind |-> "panic"]
        ELSE IF hits # {}
        THEN IF cut < 0 THEN [kind |-> "panic"]
             ELSE [kind |-> "tok", pos |-> pos + columns,
                   token |-> Token(Trim(SubSeq(slice, 1, cut)), <<pos, pos + columns>>, lineno)]
        ELSE IF Trim(slice) = << >> THEN [kind |-> "none"]
        ELSE [kind |-> "tok", pos |-> ByteLen(line),
              token |-> Token(Trim(slice), <<pos, ByteLen(line)>>, lineno)]
\* DataColumnIterator::next on (line, pos): "none", "panic", or "tok" with the
\* token and the new pos.  columns counts CHARACTERS (chars().enumerate()) and
\* is then used as a BYTE offset into slice.
DataColumnNext(line, lineno, pos) ==
    IF pos = ByteLen(line) THEN [kind |-> "none"]
    ELSE DataColumnToken(line, lineno, pos, CharIndex(line, pos),
                         SubSeq(line, CharIndex(line, pos) + 1, Len(line)))

(***************************************************************************)
(* The header assembler (src/src/parse.rs).                                *)
(***************************************************************************)
\* HeaderStore::default
EmptyStore == [f \in HeaderFields |-> None]

\* from_tokenizer_step with set_value! overwriting a field already set
from_tokenizer_step_overwriting(this, ls, idx) ==
    LET t     == tokenize_header(ls, idx)
        key   == Unwrap(t.val)[1]
        value == Unwrap(t.val)[3]
        field == HeaderFieldFromStr(key.value)
    IN  IF ~t.ok THEN Err(t.err)
        ELSE IF t.val = None THEN Ok([end |-> TRUE, store |-> this])
        ELSE IF ~field.ok THEN Err(unknown_header_key(key))
        ELSE Ok([end |-> FALSE, store |-> [this EXCEPT ![field.val] = Some(value)]])

\* one turn of the loop of HeaderStore::from_tokenizer: "end" at the
\* end_of_head line, else the store with the line's value set
from_tokenizer_step(this, ls, idx) ==
    LET t     == tokenize_header(ls, idx)
        key   == Unwrap(t.val)[1]
        value == Unwrap(t.val)[3]
        field == HeaderFieldFromStr(key.value)
    IN  IF ~t.ok THEN Err(t.err)
        ELSE IF t.val = None THEN Ok([end |-> TRUE, store |-> this])
        ELSE IF ~field.ok THEN Err(unknown_header_key(key))
        ELSE IF IsSome(this[field.val]) THEN Err(dup_header(field.val, key))
        ELSE Ok([end |-> FALSE, store |-> [this EXCEPT ![field.val] = Some(value)]])

\* r is token.value.parse(): Ok, or the error under from_parse_value_err
RequiredResult(field, token, r) ==
    IF r.ok THEN Ok(r.val) ELSE Err(from_parse_value_err(r.err, field, token))
\* the same for an optional field
OptionalResult(field, token, r) ==
    IF r.ok THEN Ok(Some(r.val)) ELSE Err(from_parse_value_err(r.err, field, token))
\* a mandatory field of a closed enumeration, as in HeaderStore::header
RequiredEnum(store, field, names) ==
    IF ~IsSome(store[field]) THEN Err(missing_header(field))
    ELSE RequiredResult(field, Unwrap(store[field]),
                        EnumFromStr(names, Unwrap(store[field]).value))

\* an optional field of a closed enumeration: missing or --- is None
OptionalEnum(store, field, names) ==
    IF ~IsSome(store[field]) THEN Ok(None)
    ELSE IF Unwrap(store[field]).value = PLACEHOLDER THEN Ok(None)
    ELSE OptionalResult(field, Unwrap(store[field]),
                        EnumFromStr(names, Unwrap(store[field]).value))

\* fn text inside HeaderStore::header, under Option::and_then
text_field(store, field) ==
    IF ~IsSome(store[field]) THEN None
    ELSE IF Unwrap(store[field]).value = PLACEHOLDER THEN None
    ELSE Some(Unwrap(store[field]).value)

\* a mandatory coordinate of the data bounds: missing, then unparsable
RequiredCoord(store, field) ==
    IF ~IsSome(store[field]) THEN Err(missing_header(field))
    ELSE RequiredResult(field, Unwrap(store[field]),
                        CoordFromStr(Unwrap(store[field]).value))

\* FirstErr reporting the last failure of the sequence
FirstErr_last(rs) ==
    IF \E i \in 1..Len(rs) : ~rs[i].ok
    THEN rs[CHOOSE i \in 1..Len(rs) : ~rs[i].ok /\ \A j \in (i + 1)..Len(rs) : rs[j].ok]
    ELSE Ok(TRUE)
\* the first failure of a sequence of results, in order, or Ok(TRUE)
FirstErr(rs) ==
    IF \E i \in 1..Len(rs) : ~rs[i].ok
    THEN rs[CHOOSE i \in 1..Len(rs) : ~rs[i].ok /\ \A j \in 1..(i - 1) : rs[j].ok]
    ELSE Ok(TRUE)

\* the first key of keys (in order) that the store holds, in an Option
FirstPresent(store, keys) ==
    IF \E i \in 1..Len(keys) : IsSome(store[keys[i]])
    THEN Some(keys[CHOOSE i \in 1..Len(keys) :
                      /\ IsSome(store[keys[i]])
                      /\ \A j \in 1..(i - 1) : ~IsSome(store[keys[j]])])
    ELSE None

\* CheckedCoord without the check
CheckedCoord_unchecked(store, field, coord_units, coord) == Ok(TRUE)
\* the coord_units check of one parsed bound
CheckedCoord(store, field, coord_units, coord) ==
    IF CoordUnitsCheck(coord_units, coord) THEN Ok(TRUE)
    ELSE Err(invalid_header_value(field, Unwrap(store[field])))

\* SparseDelta accepting any value
SparseDelta_any(store, field) == Ok(TRUE)
\* a delta key under sparse: missing or exactly ---
SparseDelta(store, field) ==
    IF ~IsSome(store[field]) \/ Unwrap(store[field]).value = PLACEHOLDER THEN Ok(TRUE)
    ELSE Err(from_parse_value_err(ParseValueError(Unwrap(store[field]).value),
                                  field, Unwrap(store[field])))

\* c holds the six coordinates of the keys k as RequiredCoord gives them
BoundsFrom(store, data_format, coord_units, k, grid_variant, sparse_variant, c) ==
    LET p  == FirstErr(SubSeq(c, 1, 4))
        u  == FirstErr([i \in 1..4 |-> CheckedCoord(store, k[i], coord_units, c[i].val)])
        dp == FirstErr(SubSeq(c, 5, 6))
        du == FirstErr([i \in 1..2 |->
                           CheckedCoord(store, k[i + 4], coord_units, c[i + 4].val)])
        ds == FirstErr(<<SparseDelta(store, k[5]), SparseDelta(store, k[6])>>)
    IN  IF ~p.ok THEN p
        ELSE IF ~u.ok THEN u
        ELSE IF data_format = "Grid"
        THEN IF ~dp.ok THEN dp
             ELSE IF ~du.ok THEN du
             ELSE Ok([variant |-> grid_variant, min1 |-> c[1].val, max1 |-> c[2].val,
                      min2 |-> c[3].val, max2 |-> c[4].val,
                      delta1 |-> c[5].val, delta2 |-> c[6].val])
        ELSE IF ~ds.ok THEN ds
             ELSE Ok([variant |-> sparse_variant, min1 |-> c[1].val, max1 |-> c[2].val,
                      min2 |-> c[3].val, max2 |-> c[4].val])
\* the part DataBounds::with_geodetic and DataBounds::with_projected share
\* once the keys of the other system are ruled out: k holds the four bound
\* keys and the two delta keys of the active system.  A DataBounds value is
\* [variant, min1, max1, min2, max2] plus [delta1, delta2] under grid, for
\* lat/lon or north/east.
BoundsOf(store, data_format, coord_units, k, grid_variant, sparse_variant) ==
    BoundsFrom(store, data_format, coord_units, k, grid_variant, sparse_variant,
               <<RequiredCoord(store, k[1]), RequiredCoord(store, k[2]),
                 RequiredCoord(store, k[3]), RequiredCoord(store, k[4]),
                 RequiredCoord(store, k[5]), RequiredCoord(store, k[6])>>)

GeodeticKeys == <<"LatMin", "LatMax", "LonMin", "LonMax", "DeltaLat", "DeltaLon">>
ProjectedKeys == <<"NorthMin", "NorthMax", "EastMin", "EastMax", "DeltaNorth", "DeltaEast">>

\* other is the first key of the other coordinate system that the header
\* holds: an error, else the bounds
ForeignKey(store, coord_type, other, bounds) ==
    IF IsSome(other)
    THEN Err(invalid_data_bounds(Unwrap(other), coord_type, Unwrap(store[Unwrap(other)])))
    ELSE bounds

\* with_geodetic without its check of the projected keys
with_geodetic_unchecked(header, data_format, coord_units, coord_type) ==
    BoundsOf(header, data_format, coord_units, GeodeticKeys,
             "GridGeodetic", "SparseGeodetic")

\* DataBounds::with_geodetic
with_geodetic(header, data_format, coord_units, coord_type) ==
    ForeignKey(header, coord_type, FirstPresent(header, ProjectedKeys),
               BoundsOf(header, data_format, coord_units, GeodeticKeys,
                        "GridGeodetic", "SparseGeodetic"))

\* DataBounds::with_projected
with_projected(header, data_format, coord_units, coord_type) ==
    ForeignKey(header, coord_type, FirstPresent(header, GeodeticKeys),
               BoundsOf(header, data_format, coord_units, ProjectedKeys,
                        "GridProjected", "SparseProjected"))

ISG_VERSION == <<"2", ".", "0">>

\* the ISG format field of HeaderStore::header
IsgFormatOf(store) ==
    IF ~IsSome(store["IsgFormat"]) THEN Err(missing_header("IsgFormat"))
    ELSE IF Unwrap(store["IsgFormat"]).value = ISG_VERSION THEN Ok(ISG_VERSION)
    ELSE Err(invalid_header_value("IsgFormat", Unwrap(store["IsgFormat"])))

\* r is token.value.parse::<usize>() in an Option
CountResult(field, token, r) ==
    IF IsSome(r) THEN Ok(Unwrap(r)) ELSE Err(invalid_header_value(field, token))
\* nrows and ncols of HeaderStore::header
CountOf(store, field) ==
    IF ~IsSome(store[field]) THEN Err(missing_header(field))
    ELSE CountResult(field, Unwrap(store[field]),
                     UIntFromStr(Unwrap(store[field]).value, 999999999))

NoDataResult(token, r) ==
    IF IsSome(r) THEN Ok(r) ELSE Err(invalid_header_value("NoData", token))
\* nodata of HeaderStore::header: the key is required, --- is None
NoDataOf(store) ==
    IF ~IsSome(store["NoData"]) THEN Err(missing_header("NoData"))
    ELSE IF Unwrap(store["NoData"]).value = PLACEHOLDER THEN Ok(None)
    ELSE NoDataResult(Unwrap(store["NoData"]), F64FromStr(Unwrap(store["NoData"]).value))

\* creation date of HeaderStore::header
CreationDateOf(store) ==
    IF ~IsSome(store["CreationDate"]) THEN Ok(None)
    ELSE IF Unwrap(store["CreationDate"]).value = PLACEHOLDER THEN Ok(None)
    ELSE OptionalResult("CreationDate", Unwrap(store["CreationDate"]),
                        CreationDateFromStr(Unwrap(store["CreationDate"]).value))

\* the end of HeaderStore::header: the optional fields and the counts
header_fields(self, isg, df, ct, cu, db, mt, dt, du, do, ts, nr, nc, nd, cd) ==
    LET post == FirstErr(<<mt, dt, du, do, ts, nr, nc, nd, cd>>)
    IN  IF ~post.ok THEN post
        ELSE Ok([model_name |-> text_field(self, "ModelName"),
                 model_year |-> text_field(self, "ModelYear"),
                 model_type |-> mt.val,
                 data_type |-> dt.val,
                 data_units |-> du.val,
                 data_format |-> df.val,
                 data_ordering |-> do.val,
                 ref_ellipsoid |-> text_field(self, "RefEllipsoid"),
                 ref_frame |-> text_field(self, "RefFrame"),
                 height_datum |-> text_field(self, "HeightDatum"),
                 tide_system |-> ts.val,
                 coord_type |-> ct.val,
                 coord_units |-> cu.val,
                 map_projection |-> text_field(self, "MapProjection"),
                 EPSG_code |-> text_field(self, "EpsgCode"),
                 data_bounds |-> db.val,
                 nrows |-> nr.val,
                 ncols |-> nc.val,
                 nodata |-> nd.val,
                 creation_date |-> cd.val,
                 ISG_format |-> isg.val])
\* the middle of HeaderStore::header: db is the data bounds
header_bounds(self, isg, df, ct, cu, db) ==
    IF ~db.ok THEN db
    ELSE header_fields(self, isg, df, ct, cu, db,
                       OptionalEnum(self, "ModelType", ModelTypeNames),
                       OptionalEnum(self, "DataType", DataTypeNames),
                       OptionalEnum(self, "DataUnits", DataUnitsNames),
                       OptionalEnum(self, "DataOrdering", DataOrderingNames),
                       OptionalEnum(self, "TideSystem", TideSystemNames),
                       CountOf(self, "NRows"), CountOf(self, "NCols"),
                       NoDataOf(self), CreationDateOf(self))
\* the start of HeaderStore::header: the format and the mandatory enumerations
header_required(self, isg, df, ct, cu) ==
    LET pre == FirstErr(<<isg, df, ct, cu>>)
    IN  IF ~pre.ok THEN pre
        ELSE header_bounds(self, isg, df, ct, cu,
                           IF ct.val = "Geodetic"
                           THEN with_geodetic(self, df.val, cu.val, ct.val)
                           ELSE with_projected(self, df.val, cu.val, ct.val))
\* HeaderStore::header: the first failure in the order of the source, else
\* the Header
header_of(self) ==
    header_required(self, IsgFormatOf(self),
                    RequiredEnum(self, "DataFormat", DataFormatNames),
                    RequiredEnum(self, "CoordType", CoordTypeNames),
                    RequiredEnum(self, "CoordUnits", CoordUnitsNames))

(***************************************************************************)
(* The data body (src/src/parse.rs).  line is the row's text, lineno its   *)
(* line number as the tokenizer counts it, errline the line number the     *)
(* length errors report: end_of_head's lineno + rno + 1.                   *)
(***************************************************************************)
RECURSIVE grid_row(_, _, _, _, _, _)
\* the end of one turn of the for loop of parse_data_grid: a is the parsed
\* cell, pushed as None when it equals nodata
grid_cell(line, lineno, pos, row, header, errline, token, a) ==
    IF ~IsSome(a) THEN Err(invalid_data(token))
    ELSE grid_row(line, lineno, pos,
                  Append(row, IF IsSome(header.nodata)
                                 /\ F64Eq(Unwrap(header.nodata), Unwrap(a))
                              THEN None ELSE a),
                  header, errline)

\* grid_token with the column check cno > header.ncols
grid_token_late(line, lineno, row, header, errline, t) ==
    IF t.kind = "panic" THEN Err(Panicked)
    ELSE IF t.kind = "none"
    THEN IF Len(row) # header.ncols
         THEN Err(too_short_data("Column", header.ncols, errline))
         ELSE Ok(row)
    ELSE IF Len(row) > header.ncols
    THEN Err(too_long_data("Column", header.ncols, errline))
    ELSE grid_cell(line, lineno, t.pos, row, header, errline, t.token,
                   F64FromStr(Trim(t.token.value)))

\* one turn of the for loop of parse_data_grid on t, which is tokens.next(),
\* and the check after the loop when the tokens are exhausted
grid_token(line, lineno, row, header, errline, t) ==
    IF t.kind = "panic" THEN Err(Panicked)
    ELSE IF t.kind = "none"
    THEN IF Len(row) # header.ncols
         THEN Err(too_short_data("Column", header.ncols, errline))
         ELSE Ok(row)
    ELSE IF Len(row) >= header.ncols
    THEN Err(too_long_data("Column", header.ncols, errline))
    ELSE grid_cell(line, lineno, t.pos, row, header, errline, t.token,
                   F64FromStr(Trim(t.token.value)))

\* the body of the while loop of parse_data_grid after the row-count check:
\* the for loop over the row's tokens, from byte offset pos on
grid_row(line, lineno, pos, row, header, errline) ==
    grid_token(line, lineno, row, header, errline, DataColumnNext(line, lineno, pos))

\* r is token.value.trim().parse::<Coord>()
sparse_coord_checked(token, header, r) ==
    IF r.ok /\ CoordUnitsCheck(header.coord_units, r.val) THEN Ok(r.val)
    ELSE Err(invalid_data(token))

\* one of the two coordinate cells of a sparse row: t is tokens.next()
sparse_coord(t, header, errline) ==
    IF t.kind = "panic" THEN Err(Panicked)
    ELSE IF t.kind = "none"
    THEN Err(too_short_data("Column", header.ncols, errline))
    ELSE sparse_coord_checked(t.token, header, CoordFromStr(Trim(t.token.value)))

\* r is token.value.trim().parse::<f64>()
sparse_value_parsed(token, r) ==
    IF IsSome(r) THEN Ok(Unwrap(r)) ELSE Err(invalid_data(token))

\* the value cell of a sparse row
sparse_value(t, header, errline) ==
    IF t.kind = "panic" THEN Err(Panicked)
    ELSE IF t.kind = "none"
    THEN Err(too_short_data("Column", header.ncols, errline))
    ELSE sparse_value_parsed(t.token, F64FromStr(Trim(t.token.value)))

\* the end of a sparse row: t4 is the tokens.next() that must be None
sparse_row_end(header, errline, a, b, c, t4) ==
    IF ~c.ok THEN c
    ELSE IF t4.kind = "panic" THEN Err(Panicked)
    ELSE IF t4.kind = "tok" THEN Err(too_long_data("Column", header.ncols, errline))
    ELSE Ok(<<a.val, b.val, c.val>>)

\* the third cell: b is the second coordinate, t3 the value's token
sparse_row_value(line, lineno, header, errline, a, b, t3) ==
    IF ~b.ok THEN b
    ELSE sparse_row_end(header, errline, a, b, sparse_value(t3, header, errline),
                        DataColumnNext(line, lineno, t3.pos))

\* the second cell: a is the first coordinate, t2 the second's token
sparse_row_second(line, lineno, header, errline, a, t2) ==
    IF ~a.ok THEN a
    ELSE sparse_row_value(line, lineno, header, errline, a,
                          sparse_coord(t2, header, errline),
                          DataColumnNext(line, lineno, t2.pos))

\* the first cell: t1 is the first tokens.next()
sparse_row_first(line, lineno, header, errline, t1) ==
    sparse_row_second(line, lineno, header, errline, sparse_coord(t1, header, errline),
                      DataColumnNext(line, lineno, t1.pos))

\* the body of the while loop of parse_data_sparse after the row-count check
sparse_row(line, lineno, header, errline) ==
    sparse_row_first(line, lineno, header, errline, DataColumnNext(line, lineno, 0))

\* one turn of the while loop of parse_data_grid / parse_data_sparse on the
\* next line: the row-count check, then the row
data_row(line, lineno, header, eoh_lineno, rno) ==
    IF rno >= header.nrows
    THEN Err(too_long_data("Row", header.nrows, eoh_lineno + rno + 1))
    ELSE IF header.data_format = "Grid"
    THEN grid_row(line, lineno, 0, << >>, header, eoh_lineno + rno + 1)
    ELSE sparse_row(line, lineno, header, eoh_lineno + rno + 1)

\* after the loop: the final row-count check and the Data value
data_end(header, eoh_lineno, rno, rows) ==
    IF rno # header.nrows
    THEN Err(too_short_data("Row", header.nrows, eoh_lineno + rno + 1))
    ELSE Ok([variant |-> header.data_format, rows |-> rows])

(***************************************************************************)
(* The validator (src/src/validation.rs).                                  *)
(***************************************************************************)
ExpectedVariant(data_format, coord_type) ==
    CASE data_format = "Grid" /\ coord_type = "Geodetic" -> "GridGeodetic"
      [] data_format = "Grid" /\ coord_type = "Projected" -> "GridProjected"
      [] data_format = "Sparse" /\ coord_type = "Geodetic" -> "SparseGeodetic"
      [] data_format = "Sparse" /\ coord_type = "Projected" -> "SparseProjected"

\* the coordinates of a DataBounds value, with the field each is reported as
BoundsCoords(db) ==
    LET k == IF db.variant \in {"GridGeodetic", "SparseGeodetic"}
             THEN GeodeticKeys ELSE ProjectedKeys
        four == <<<<k[1], db.min1>>, <<k[2], db.max1>>, <<k[3], db.min2>>, <<k[4], db.max2>>>>
    IN  IF db.variant \in {"GridGeodetic", "GridProjected"}
        THEN four \o <<<<k[5], db.delta1>>, <<k[6], db.delta2>>>>
        ELSE four

\* Header::validate checking the variant of the bounds before ISG_format
header_validate_reordered(self) ==
    LET cs  == BoundsCoords(self.data_bounds)
        bad == {i \in 1..Len(cs) : ~CoordUnitsCheck(self.coord_units, cs[i][2])}
    IN  IF self.data_bounds.variant # ExpectedVariant(self.data_format, self.coord_type)
        THEN Err([kind |-> "DataBounds", data_format |-> self.data_format,
                  coord_type |-> self.coord_type])
        ELSE IF self.ISG_format # ISG_VERSION THEN Err([kind |-> "ISGFormat"])
        ELSE IF bad # {}
        THEN Err([kind |-> "CoordUnitsOnHeader",
                  field |-> cs[CHOOSE i \in bad : \A j \in bad : i <= j][1]])
        ELSE Ok(TRUE)
\* Header::validate
header_validate(self) ==
    LET cs  == BoundsCoords(self.data_bounds)
        bad == {i \in 1..Len(cs) : ~CoordUnitsCheck(self.coord_units, cs[i][2])}
    IN  IF self.ISG_format # ISG_VERSION THEN Err([kind |-> "ISGFormat"])
        ELSE IF self.data_bounds.variant # ExpectedVariant(self.data_format, self.coord_type)
        THEN Err([kind |-> "DataBounds", data_format |-> self.data_format,
                  coord_type |-> self.coord_type])
        ELSE IF bad # {}
        THEN Err([kind |-> "CoordUnitsOnHeader",
                  field |-> cs[CHOOSE i \in bad : \A j \in bad : i <= j][1]])
        ELSE Ok(TRUE)

\* Data::validate
data_validate(self, header) ==
    LET rows  == self.rows
        wrong == {i \in 1..Len(rows) : Len(rows[i]) # header.ncols}
        badc  == {p \in (1..Len(rows)) \X {1, 2} :
                     ~CoordUnitsCheck(header.coord_units, rows[p[1]][p[2]])}
        first == CHOOSE p \in badc :
                     \A q \in badc : p[1] < q[1] \/ (p[1] = q[1] /\ p[2] <= q[2])
    IN  IF Len(rows) # header.nrows
        THEN Err([kind |-> "NoRow", nrows |-> header.nrows, actual |-> Len(rows)])
        ELSE IF self.variant = "Grid"
        THEN IF wrong # {}
             THEN Err([kind |-> "NoCols", ncols |-> header.ncols,
                       actual |-> Some(Len(rows[CHOOSE i \in wrong : \A j \in wrong : i <= j]))])
             ELSE Ok(TRUE)
        ELSE IF 3 # header.ncols
        THEN Err([kind |-> "NoCols", ncols |-> header.ncols, actual |-> None])
        ELSE IF badc # {}
        THEN Err([kind |-> "CoordUnitsOnData", lineno |-> first[1], column |-> first[2]])
        ELSE Ok(TRUE)

\* ISG::validate
validate(self) ==
    LET h == header_validate(self.header)
    IN  IF ~h.ok THEN h ELSE data_validate(self.data, self.header)

\* ISG::is_valid
is_valid(self) == validate(self).ok

(***************************************************************************)
(* The serializer (src/src/display.rs).                                    *)
(***************************************************************************)
\* the fixed label of a header line: the key left-aligned in 15 columns,
\* the separator, a space
Label(field, sep) ==
    KeyText(field) \o Repeat(" ", 15 - Len(KeyText(field))) \o <<sep, " ">>

\* Coord::_to_string
coord_to_string(self, coord_units) ==
    IF self.tag = "DMS"
    THEN PadLeft(IntToString(self.degree), 4) \o <<"DEG">>
         \o ZeroPad(NatStr(self.minutes), 2) \o <<"'">>
         \o ZeroPad(NatStr(self.second), 2) \o <<"DQ">>
    ELSE IF coord_units = "Deg" THEN PadLeft(F64Fixed(self.value, 6), 11)
    ELSE IF coord_units = "DMS" THEN PadLeft(F64ToString(self.value), 11)
    ELSE PadLeft(F64Fixed(self.value, 3), 11)

OrPlaceholder(o) == IF IsSome(o) THEN Unwrap(o) ELSE PLACEHOLDER
EnumOrPlaceholder(names, o) ==
    IF IsSome(o) THEN EnumToString(names, Unwrap(o)) ELSE PLACEHOLDER

\* the data_bounds lines of impl Display for Header
bounds_to_string(self) ==
    LET db == self.data_bounds
        k  == IF db.variant \in {"GridGeodetic", "SparseGeodetic"}
              THEN GeodeticKeys ELSE ProjectedKeys
        ln(f, c) == Label(f, "=") \o coord_to_string(c, self.coord_units) \o <<"LF">>
        four == ln(k[1], db.min1) \o ln(k[2], db.max1) \o ln(k[3], db.min2) \o ln(k[4], db.max2)
    IN  IF db.variant \in {"GridGeodetic", "GridProjected"}
        THEN four \o ln(k[5], db.delta1) \o ln(k[6], db.delta2)
        ELSE four \o Label(k[5], "=") \o PLACEHOLDER \o <<"LF">>
                  \o Label(k[6], "=") \o PLACEHOLDER \o <<"LF">>

\* impl Display for Header
header_to_string(self) ==
    LET ln(f, sep, v) == Label(f, sep) \o v \o <<"LF">>
        date == self.creation_date[1]
    IN  ln("ModelName", ":", OrPlaceholder(self.model_name))
        \o ln("ModelYear", ":", OrPlaceholder(self.model_year))
        \o ln("ModelType", ":", EnumOrPlaceholder(ModelTypeNames, self.model_type))
        \o ln("DataType", ":", EnumOrPlaceholder(DataTypeNames, self.data_type))
        \o ln("DataUnits", ":", EnumOrPlaceholder(DataUnitsNames, self.data_units))
        \o ln("DataFormat", ":", EnumToString(DataFormatNames, self.data_format))
        \o ln("DataOrdering", ":", EnumOrPlaceholder(DataOrderingNames, self.data_ordering))
        \o ln("RefEllipsoid", ":", OrPlaceholder(self.ref_ellipsoid))
        \o ln("RefFrame", ":", OrPlaceholder(self.ref_frame))
        \o ln("HeightDatum", ":", OrPlaceholder(self.height_datum))
        \o ln("TideSystem", ":", EnumOrPlaceholder(TideSystemNames, self.tide_system))
        \o ln("CoordType", ":", EnumToString(CoordTypeNames, self.coord_type))
        \o ln("CoordUnits", ":", EnumToString(CoordUnitsNames, self.coord_units))
        \o ln("MapProjection", ":", OrPlaceholder(self.map_projection))
        \o ln("EpsgCode", ":", OrPlaceholder(self.EPSG_code))
        \o bounds_to_string(self)
        \o ln("NRows", "=", PadLeft(NatStr(self.nrows), 11))
        \o ln("NCols", "=", PadLeft(NatStr(self.ncols), 11))
        \o ln("NoData", "=", IF IsSome(self.nodata)
                             THEN <<" ">> \o PadLeft(F64Fixed(Unwrap(self.nodata), 4), 10)
                             ELSE PLACEHOLDER)
        \o ln("CreationDate", "=",
              IF IsSome(self.creation_date)
              THEN PadLeft(ZeroPad(NatStr(date.day), 2) \o <<"/">>
                           \o ZeroPad(NatStr(date.month), 2) \o <<"/">>
                           \o ZeroPad(NatStr(date.year), 4), 11)
              ELSE PLACEHOLDER)
        \o ln("IsgFormat", "=", PadLeft(self.ISG_format, 11))

NODATA_FALLBACK == <<"-", "9", "9", "9", "9", ".", "9", "9", "9", "9">>

\* cell_to_string writing the fixed sentinel for every absent cell
cell_to_string_sentinel(column, nodata) ==
    IF ~IsSome(column) THEN NODATA_FALLBACK
    ELSE PadLeft(F64Fixed(Unwrap(column), 4), 10)
\* one grid cell of impl Display for ISG
cell_to_string(column, nodata) ==
    IF ~IsSome(column) /\ ~IsSome(nodata) THEN NODATA_FALLBACK
    ELSE IF IsSome(column) THEN PadLeft(F64Fixed(Unwrap(column), 4), 10)
    ELSE PadLeft(F64Fixed(Unwrap(nodata), 4), 10)

RECURSIVE grid_row_to_string(_, _, _)
grid_row_to_string(row, nodata, i) ==
    IF i > Len(row) THEN <<"LF">>
    ELSE (IF i > 1 THEN <<" ">> ELSE << >>) \o cell_to_string(row[i], nodata)
         \o grid_row_to_string(row, nodata, i + 1)

sparse_row_to_string(row, coord_units) ==
    coord_to_string(row[1], coord_units) \o <<" ">>
    \o coord_to_string(row[2], coord_units) \o <<" ">>
    \o PadLeft(F64Fixed(row[3], 4), 10) \o <<"LF">>

RECURSIVE data_to_string(_, _, _)
data_to_string(data, header, i) ==
    IF i > Len(data.rows) THEN << >>
    ELSE (IF data.variant = "Grid"
          THEN grid_row_to_string(data.rows[i], header.nodata, 1)
          ELSE sparse_row_to_string(data.rows[i], header.coord_units))
         \o data_to_string(data, header, i + 1)

BOH_LINE == BEGIN_OF_HEAD \o <<" ">> \o Repeat("=", 48) \o <<"LF">>
EOH_LINE == END_OF_HEADER \o <<" ">> \o Repeat("=", 50) \o <<"LF">>

\* impl Display for ISG, and to_string
to_string(isg) ==
    (IF isg.comment = << >> THEN << >>
     ELSE IF isg.comment[Len(isg.comment)] = "LF" THEN isg.comment
     ELSE isg.comment \o <<"LF">>)
    \o BOH_LINE \o header_to_string(isg.header) \o EOH_LINE
    \o data_to_string(isg.data, isg.header, 1)

(***************************************************************************)
(* Equality of documents: the derived PartialEq of ISG, Header, Data and   *)
(* Coord (src/src/lib.rs).  f64 equality takes -0.0 and 0.0 as equal; the  *)
(* model holds no NaN.                                                     *)
(***************************************************************************)
F64Canon(v) == IF v.int = 0 /\ v.frac = 0 THEN [v EXCEPT !.neg = FALSE] ELSE v
CoordCanon(c) == IF c.tag = "Dec" THEN Dec(F64Canon(c.value)) ELSE c
BoundsCanon(db) ==
    [f \in DOMAIN db |-> IF f = "variant" THEN db[f] ELSE CoordCanon(db[f])]
DataCanon(data) ==
    [variant |-> data.variant,
     rows |-> [i \in 1..Len(data.rows) |->
                 IF data.variant = "Grid"
                 THEN [j \in 1..Len(data.rows[i]) |->
                         [k \in 1..Len(data.rows[i][j]) |-> F64Canon(data.rows[i][j][k])]]
                 ELSE <<CoordCanon(data.rows[i][1]), CoordCanon(data.rows[i][2]),
                        F64Canon(data.rows[i][3])>>]]
ISGEq(a, b) ==
    /\ a.comment = b.comment
    /\ [a.header EXCEPT !.data_bounds = BoundsCanon(@),
                        !.nodata = [k \in 1..Len(@) |-> F64Canon(@[k])]]
       = [b.header EXCEPT !.data_bounds = BoundsCanon(@),
                          !.nodata = [k \in 1..Len(@) |-> F64Canon(@[k])]]
    /\ DataCanon(a.data) = DataCanon(b.data)

(***************************************************************************)
(* Input texts.  An input is a comment, header lines, and data lines; it   *)
(* is rendered with one line terminator after every line.                  *)
(***************************************************************************)
\* a header line "key = value"
HL(field, value) == KeyText(field) \o <<" ", "=", " ">> \o value

\* a coordinate literal of the variant the units imply
CoordLit(units, n) ==
    IF units = "DMS" THEN NatStr(n) \o <<"DEG", "0", "0", "'", "0", "0", "DQ">>
    ELSE NatStr(n)

BoundKeys(coord_type) == IF coord_type = "Geodetic" THEN GeodeticKeys ELSE ProjectedKeys

\* the mandatory lines of a header
BaseLines(data_format, coord_type, units, nrows, ncols) ==
    LET k == BoundKeys(coord_type)
    IN  <<HL("IsgFormat", ISG_VERSION),
          HL("DataFormat", EnumToString(DataFormatNames, data_format)),
          HL("CoordType", EnumToString(CoordTypeNames, coord_type)),
          HL("CoordUnits", EnumToString(CoordUnitsNames, units)),
          HL(k[1], CoordLit(units, 1)), HL(k[2], CoordLit(units, 2)),
          HL(k[3], CoordLit(units, 3)), HL(k[4], CoordLit(units, 4))>>
        \o (IF data_format = "Grid"
            THEN <<HL(k[5], CoordLit(units, 1)), HL(k[6], CoordLit(units, 1))>>
            ELSE << >>)
        \o <<HL("NRows", NatStr(nrows)), HL("NCols", NatStr(ncols)),
             HL("NoData", <<"-", "9">>)>>

RECURSIVE JoinLines(_, _)
JoinLines(lines, eol) ==
    IF lines = << >> THEN << >>
    ELSE Head(lines) \o eol \o JoinLines(Tail(lines), eol)

\* the text of an input
Render(in) ==
    IF in.fam = "noboh"
    THEN in.comment \o JoinLines(in.tag.first \o in.lines, <<"LF">>)
    ELSE IF in.fam = "order"
    THEN JoinLines((IF in.tag.boh THEN <<BEGIN_OF_HEAD>> ELSE << >>) \o in.lines
                       \o (IF in.tag.eoh THEN <<END_OF_HEADER>> \o in.body ELSE << >>),
                   <<"LF">>)
    ELSE in.comment \o JoinLines(<<BEGIN_OF_HEAD>> \o in.lines \o <<END_OF_HEADER>> \o in.body,
                                 <<"LF">>)

Input(fam, comment, lines, body, tag) ==
    [fam |-> fam, comment |-> comment, lines |-> lines, body |-> body, tag |-> tag]

\* texts for the parse/serialize round trip
Systems == {<<"Geodetic", "Deg">>, <<"Geodetic", "DMS">>, <<"Projected", "Meters">>}
NameLines ==
    {<< >>,
     <<KeyText("ModelName") \o <<":", " ", "x">>>>,
     <<KeyText("ModelName") \o <<":">>>>,
     <<KeyText("ModelName") \o <<":", " ">>>>,
     <<KeyText("ModelName") \o <<":", " ", "-", "-", "-">>>>}
CellTexts == {<<"1", ".", "5">>, <<"1", ".", "2", "3", "4", "5", "6">>}
Comments ==
    {<<"c", "LF">>,
     <<"EAC", " ", "c", "LF">>,
     <<"a", "CR", "LF", "b", "CR", "LF", "c", "CR", "LF">>,
     <<"CR", "LF", "CR", "LF", "EAC", "LF">>}
\* grid, sparse with ncols = 3, sparse with ncols = 5
Shapes == {<<"Grid", 2>>, <<"Sparse", 3>>, <<"Sparse", 5>>}

RoundBody(shape, units, cell) ==
    IF shape[1] = "Grid" THEN <<cell \o <<" ", "-", "9">>>>
    ELSE <<CoordLit(units, 1) \o <<" ">> \o CoordLit(units, 2) \o <<" ">> \o cell>>

RoundInputs ==
    {Input("round", << >>, BaseLines(sh[1], sy[1], sy[2], 1, sh[2]) \o nm,
           RoundBody(sh, sy[2], cell), << >>) :
        sh \in Shapes, sy \in Systems, nm \in NameLines, cell \in CellTexts}
    \cup
    {Input("round", c, BaseLines("Grid", "Geodetic", "Deg", 1, 2),
           RoundBody(<<"Grid", 2>>, "Deg", <<"1", ".", "5">>), << >>) : c \in Comments}

\* texts with characters of more than one byte in the header and the data
CharBodies ==
    {<<<<"1", "DEG", " ", "2">>>>,
     <<<<"EAC", "1", " ", "2">>>>,
     <<<<"1", " ", "2", "EAC">>>>,
     <<<<"1", " ", " ", "2">>>>,
     <<<<"1", "TAB", "2">>>>}
CharInputs ==
    {Input("chars", << >>, BaseLines("Grid", "Geodetic", "Deg", 1, 2), b, << >>) :
        b \in CharBodies}
    \cup
    {Input("chars", << >>,
           BaseLines("Grid", "Geodetic", "Deg", 1, 2)
               \o <<KeyText("ModelName") \o <<":", " ", "EAC">>>>,
           <<<<"1", " ", "2">>>>, << >>),
     Input("chars", << >>,
           BaseLines("Grid", "Geodetic", "Deg", 1, 2) \o <<<<"EAC", "=", "1">>>>,
           <<<<"1", " ", "2">>>>, << >>)}

\* headers that hold keys of the other coordinate system: extras is the set
\* of those keys, each with the given value, put first or last in the header;
\* drop = 1 leaves out the first bound key of the active system
OtherKeys(coord_type) == IF coord_type = "Geodetic" THEN ProjectedKeys ELSE GeodeticKeys
ExtraSets(coord_type) ==
    LET o == OtherKeys(coord_type)
    IN  {{o[i]} : i \in 1..6} \cup {{o[1], o[6]}, {o[2], o[5]}}
ExtraLines(coord_type, extras, value) ==
    LET o == OtherKeys(coord_type)
        pick(i) == IF o[i] \in extras THEN <<HL(o[i], value)>> ELSE << >>
    IN  pick(1) \o pick(2) \o pick(3) \o pick(4) \o pick(5) \o pick(6)
BoundsHeader(data_format, sy, drop) ==
    LET b == BaseLines(data_format, sy[1], sy[2], 1, 2)
    IN  IF drop = 1 THEN SubSeq(b, 1, 4) \o SubSeq(b, 6, Len(b)) ELSE b
BoundsInputsOf(sy) ==
    {Input("bounds", << >>,
           IF first THEN ExtraLines(sy[1], ex, v) \o BoundsHeader(df, sy, drop)
           ELSE BoundsHeader(df, sy, drop) \o ExtraLines(sy[1], ex, v),
           <<<<"1", " ", "2">>>>,
           [extras |-> ex, coord_type |-> sy[1], drop |-> drop, value |-> v]) :
        df \in {"Grid", "Sparse"},
        ex \in ExtraSets(sy[1]) \cup {{}},
        v \in {PLACEHOLDER, <<"1">>},
        drop \in {0, 1},
        first \in BOOLEAN}
BoundsInputs ==
    BoundsInputsOf(<<"Geodetic", "Deg">>) \cup BoundsInputsOf(<<"Projected", "Meters">>)

\* headers that hold a key twice.  k is <<field, position of the field's line
\* in the base header>>; the second line for the field comes after line p of
\* the base header, indented, with the value v; earlier says what else the
\* header holds: a line without separator, a line with an unknown key or
\* another duplicated key before the second occurrence, an invalid value,
\* or a line without separator after it
DupBase ==
    BaseLines("Grid", "Geodetic", "Deg", 1, 2) \o <<HL("ModelName", <<"x">>)>>
DupKeys == {<<"LatMin", 5>>, <<"NRows", 11>>, <<"ModelName", 14>>}
JunkLine == <<"j", "u", "n", "k">>
DupBefore(earlier) ==
    CASE earlier = "nosep" -> <<JunkLine>>
      [] earlier = "unknown" -> <<<<"f", "o", "o", " ", "=", " ", "1">>>>
      [] earlier = "dup" -> <<HL("RefFrame", <<"x">>), HL("RefFrame", <<"x">>)>>
      [] earlier = "invalid" -> <<HL("TideSystem", <<"x">>)>>
      [] OTHER -> << >>
DupComments ==
    {<< >>, <<"c", "LF">>, <<"a", "CR", "LF", "b", "CR", "LF">>,
     <<"CR", "LF", "CR", "LF", "EAC", "LF">>}
DupInputsAt(k, p) ==
    {Input("dup", c,
           DupBefore(e) \o SubSeq(DupBase, 1, p)
               \o <<Repeat(" ", indent) \o HL(k[1], v)>>
               \o SubSeq(DupBase, p + 1, Len(DupBase))
               \o (IF e = "after" THEN <<JunkLine>> ELSE << >>),
           <<<<"1", " ", "2">>>>,
           [key |-> k[1], second |-> Len(DupBefore(e)) + p + 1, indent |-> indent,
            earlier |-> e, clines |-> Len(Lines(c))]) :
        c \in DupComments,
        v \in {<<"1">>, <<"x">>},
        indent \in {0, 2},
        e \in {"none", "nosep", "unknown", "dup", "invalid", "after"}}
DupInputs ==
    UNION {DupInputsAt(k, k[2]) \cup DupInputsAt(k, Len(DupBase)) : k \in DupKeys}

\* grid bodies for a header of GridRows rows and GridCols columns: counts
\* holds the number of cells of each body line, cells are valid decimals,
\* sep separates them and lead starts each line
GridRows == 2
GridCols == 2
RECURSIVE GridLine(_, _, _, _)
GridLine(i, n, sep, lead) ==
    IF n = 0 THEN lead
    ELSE GridLine(i, n - 1, sep, lead) \o (IF n > 1 THEN sep ELSE << >>)
         \o NatStr(i) \o <<".">> \o NatStr(n)
RECURSIVE CountSeqs(_)
\* the sequences of at most n cell counts, each in 0..GridCols + 1
CountSeqs(n) ==
    IF n = 0 THEN {<< >>}
    ELSE CountSeqs(n - 1)
         \cup {Append(s, c) : s \in {t \in CountSeqs(n - 1) : Len(t) = n - 1},
                              c \in 0..(GridCols + 1)}
GridInputs ==
    {Input("grid", << >>, BaseLines("Grid", "Geodetic", "Deg", GridRows, GridCols),
           [i \in 1..Len(counts) |-> GridLine(i, counts[i], sep, lead)],
           [counts |-> counts]) :
        counts \in CountSeqs(GridRows + 1),
        sep \in {<<" ">>, <<" ", " ">>},
        lead \in {<< >>, <<" ">>}}

\* sparse bodies for a header of SparseRows rows: every body line is a row
\* as the serializer renders it, of coordinates of the variant the units
\* imply and 3 cells, but for the line dev, which has the given style of
\* coordinates ("dms" or "dec") and the given number of cells
SparseRows == 2
SparseF64(i, k) == [neg |-> FALSE, int |-> i, frac |-> k * 100000]
SparseCoord(style, i, k) ==
    IF style = "dms" THEN DMS(i, 30, k) ELSE Dec(SparseF64(i, k))
SparseLine(units, style, count, i) ==
    LET c1 == coord_to_string(SparseCoord(style, i, 1), units)
        c2 == coord_to_string(SparseCoord(style, i, 2), units)
        v  == PadLeft(F64Fixed(SparseF64(i, 3), 4), 10)
    IN  CASE count = 1 -> c1
          [] count = 2 -> c1 \o <<" ">> \o c2
          [] count = 3 -> c1 \o <<" ">> \o c2 \o <<" ">> \o v
          [] OTHER -> c1 \o <<" ">> \o c2 \o <<" ">> \o v \o <<" ">> \o v
StyleOf(units) == IF units = "DMS" THEN "dms" ELSE "dec"
SparseShapes(units) ==
    {[i \in 1..n |-> IF i = dev THEN [style |-> st, count |-> cnt]
                     ELSE [style |-> StyleOf(units), count |-> 3]] :
        n \in 0..(SparseRows + 1), dev \in 1..2, st \in {"dms", "dec"}, cnt \in 1..4}
SparseInputsOf(sy) ==
    {Input("sparse", << >>, BaseLines("Sparse", sy[1], sy[2], SparseRows, 3),
           [i \in 1..Len(sh) |-> SparseLine(sy[2], sh[i].style, sh[i].count, i)],
           [rows |-> sh, units |-> sy[2]]) : sh \in SparseShapes(sy[2])}
SparseInputs == UNION {SparseInputsOf(sy) : sy \in Systems}

\* grid texts of one row of two cells under a nodata setting: each literal
\* comes with the number it denotes, in millionths; set = FALSE is ---
Literal(txt, micro) == [text |-> txt, micro |-> micro]
NoDataLits ==
    {[set |-> FALSE, text |-> PLACEHOLDER, micro |-> 0],
     [set |-> TRUE, text |-> <<"-", "9">>, micro |-> -9000000],
     [set |-> TRUE, text |-> <<"0">>, micro |-> 0],
     [set |-> TRUE, text |-> <<"1", ".", "5">>, micro |-> 1500000]}
CellLits ==
    {Literal(<<"-", "9">>, -9000000), Literal(<<"-", "9", ".", "0">>, -9000000),
     Literal(<<"-", "0">>, 0), Literal(<<"0", ".", "0">>, 0),
     Literal(<<"1", ".", "5">>, 1500000), Literal(<<"1", ".", "5", "0", "0", "0", "1">>, 1500010),
     Literal(<<"2">>, 2000000)}
NoDataInputs ==
    {Input("nodata", << >>,
           SubSeq(BaseLines("Grid", "Geodetic", "Deg", 1, 2), 1, 12)
               \o <<HL("NoData", nd.text)>>,
           <<a.text \o <<" ">> \o b.text>>,
           [nodata |-> nd, cells |-> <<a, b>>]) :
        nd \in NoDataLits, a \in CellLits, b \in CellLits}
\* headers with one key left out, or given the placeholder ---: the full
\* header holds every key of the active system, each with a valid value
OptionalLines ==
    <<<<"ModelName", <<"x">>>>, <<"ModelYear", <<"2", "0">>>>,
      <<"ModelType", <<"h", "y", "b", "r", "i", "d">>>>,
      <<"DataType", <<"g", "e", "o", "i", "d">>>>,
      <<"DataUnits", <<"f", "e", "e", "t">>>>,
      <<"DataOrdering", <<"z", "e", "t", "a">>>>,
      <<"RefEllipsoid", <<"x">>>>, <<"RefFrame", <<"x">>>>, <<"HeightDatum", <<"x">>>>,
      <<"TideSystem", <<"t", "i", "d", "e", "-", "f", "r", "e", "e">>>>,
      <<"MapProjection", <<"x">>>>, <<"EpsgCode", <<"1">>>>,
      <<"CreationDate", <<"0", "1", "/", "0", "2", "/", "2", "0", "2", "0">>>>>>
\* the key of a header line made by HL
LineKey(line) ==
    CHOOSE f \in HeaderFields : StartsWith(line, KeyText(f) \o <<" ", "=">>)
FullLines(data_format, sy) ==
    BaseLines(data_format, sy[1], sy[2], 1, IF data_format = "Grid" THEN 2 ELSE 3)
    \o [i \in 1..Len(OptionalLines) |-> HL(OptionalLines[i][1], OptionalLines[i][2])]
MissingLines(full, key, mode) ==
    LET at == CHOOSE i \in 1..Len(full) : LineKey(full[i]) = key
    IN  SubSeq(full, 1, at - 1)
        \o (IF mode = "dash" THEN <<HL(key, PLACEHOLDER)>> ELSE << >>)
        \o SubSeq(full, at + 1, Len(full))
MissingInputsOf(data_format, sy) ==
    {Input("missing", << >>,
           MissingLines(FullLines(data_format, sy), LineKey(FullLines(data_format, sy)[i]), mode),
           RoundBody(<<data_format, 2>>, sy[2], <<"1", ".", "5">>),
           [key |-> LineKey(FullLines(data_format, sy)[i]), mode |-> mode,
            data_format |-> data_format, coord_type |-> sy[1]]) :
        i \in 1..Len(FullLines(data_format, sy)), mode \in {"omit", "dash"}}
MissingInputs ==
    UNION {MissingInputsOf(df, sy) : df \in {"Grid", "Sparse"}, sy \in Systems}
\* headers whose two delta keys are each missing, ---, a coordinate of the
\* variant the units imply ("good"), one of the other variant ("wrong"), or
\* no coordinate at all ("junk")
DeltaStates == {"missing", "dash", "good", "wrong", "junk"}
DeltaSystems == Systems \cup {<<"Projected", "Feet">>}
DeltaLine(key, units, state) ==
    CASE state = "missing" -> << >>
      [] state = "dash" -> <<HL(key, PLACEHOLDER)>>
      [] state = "good" -> <<HL(key, CoordLit(units, 1))>>
      [] state = "wrong" -> <<HL(key, CoordLit(IF units = "DMS" THEN "Deg" ELSE "DMS", 1))>>
      [] state = "junk" -> <<HL(key, <<"x">>)>>
DeltaInputsOf(data_format, sy) ==
    {Input("delta", << >>,
           <<HL("IsgFormat", ISG_VERSION),
             HL("DataFormat", EnumToString(DataFormatNames, data_format))>>
               \o Tail(Tail(BaseLines("Sparse", sy[1], sy[2], 1,
                                      IF data_format = "Grid" THEN 2 ELSE 3)))
               \o DeltaLine(BoundKeys(sy[1])[5], sy[2], s1)
               \o DeltaLine(BoundKeys(sy[1])[6], sy[2], s2),
           RoundBody(<<data_format, 2>>, sy[2], <<"1", ".", "5">>),
           [data_format |-> data_format, coord_type |-> sy[1], units |-> sy[2],
            states |-> <<s1, s2>>]) :
        s1 \in DeltaStates, s2 \in DeltaStates}
DeltaInputs ==
    UNION {DeltaInputsOf(df, sy) : df \in {"Grid", "Sparse"}, sy \in DeltaSystems}
\* headers in which one bound or delta of the active system is a coordinate
\* of the variant the units do not imply; pad is the number of spaces put
\* before the value, at the line's place in the header
WrongLit(units) == CoordLit(IF units = "DMS" THEN "Deg" ELSE "DMS", 7)
UnitsInputsOf(data_format, sy) ==
    LET base == BaseLines(data_format, sy[1], sy[2], 1, IF data_format = "Grid" THEN 2 ELSE 3)
        k    == BoundKeys(sy[1])
    IN  {Input("units", << >>,
               [j \in 1..Len(base) |->
                   IF j = 4 + i
                   THEN KeyText(k[i]) \o <<" ", "=">> \o Repeat(" ", pad) \o WrongLit(sy[2])
                   ELSE base[j]],
               RoundBody(<<data_format, 2>>, sy[2], <<"1", ".", "5">>),
               [key |-> k[i], lineno |-> 5 + i, pad |-> pad, units |-> sy[2]]) :
            i \in 1..(IF data_format = "Grid" THEN 6 ELSE 4), pad \in {0, 1, 3}}
        \cup
        {Input("units", << >>,
               base \o <<KeyText(k[i]) \o <<" ", "=">> \o Repeat(" ", pad) \o WrongLit(sy[2])>>,
               RoundBody(<<data_format, 2>>, sy[2], <<"1", ".", "5">>),
               [key |-> k[i], lineno |-> Len(base) + 2, pad |-> pad, units |-> sy[2]]) :
            i \in (IF data_format = "Grid" THEN {} ELSE 5..6), pad \in {0, 1, 3}}
UnitsInputs ==
    UNION {UnitsInputsOf(df, sy) : df \in {"Grid", "Sparse"}, sy \in DeltaSystems}
\* texts in which no line starts with begin_of_head: first holds what stands
\* in the place of the begin_of_head line, rest what follows (a complete
\* header, end_of_head line and data, or nothing)
NoBohFirsts ==
    {<< >>,
     <<<<" ">> \o BEGIN_OF_HEAD>>,
     <<<<"x">> \o BEGIN_OF_HEAD>>,
     <<SubSeq(BEGIN_OF_HEAD, 1, Len(BEGIN_OF_HEAD) - 1)>>,
     <<<<"B">> \o Tail(BEGIN_OF_HEAD)>>,
     <<END_OF_HEADER>>}
NoBohInputs ==
    {Input("noboh", c, rest, << >>, [first |-> f]) :
        c \in DupComments,
        f \in NoBohFirsts,
        rest \in {<< >>,
                  BaseLines("Grid", "Geodetic", "Deg", 1, 2)
                      \o <<END_OF_HEADER, <<"1", " ", "2">>>>,
                  <<JunkLine>>}}
\* headers with one free-text key whose value is ---, a word, nothing, or
\* only spaces
TextKeys ==
    {"ModelName", "ModelYear", "RefEllipsoid", "RefFrame", "HeightDatum", "MapProjection",
     "EpsgCode"}
TextInputs ==
    {Input("text", << >>,
           BaseLines("Grid", "Geodetic", "Deg", 1, 2) \o <<KeyText(k) \o <<sep>> \o v>>,
           <<<<"1", " ", "2">>>>,
           [key |-> k, value |-> v]) :
        k \in TextKeys, sep \in {":", "="},
        v \in {<<" ">> \o PLACEHOLDER, <<" ", "x">>, << >>, <<" ">>, <<" ", " ", " ">>}}
\* texts in which one bound or delta of the header, or one data cell, is no
\* number and no coordinate
BadLits ==
    {<<"x">>, <<"1", ".", "2", ".", "3">>,
     <<"1", "DEG", "0", "0", "'", "x", "x", "DQ">>,
     <<"1", "DEG", "x", "x", "'", "0", "7", "DQ">>,
     <<"x", "DEG", "0", "0", "'", "0", "7", "DQ">>,
     <<"1", "DEG", "0", "0", "'", "0", "7", "DQ", "x">>,
     <<"1", "DEG", "3", "0", "0", "'", "0", "7", "DQ">>,
     <<"1", "DEG", "0", "0", "'", "0", "7">>,
     <<"1", "DEG", "0", "0", "DQ">>}
BadHeaderInputs ==
    {Input("badnum", << >>,
           [j \in 1..Len(BaseLines("Grid", sy[1], sy[2], 1, 2)) |->
               IF j = 4 + i THEN HL(BoundKeys(sy[1])[i], lit)
               ELSE BaseLines("Grid", sy[1], sy[2], 1, 2)[j]],
           <<<<"1", " ", "2">>>>,
           [where |-> "header", literal |-> lit, lineno |-> 5 + i,
            span |-> <<Len(KeyText(BoundKeys(sy[1])[i])) + 3,
                       Len(KeyText(BoundKeys(sy[1])[i])) + 3 + ByteLen(lit)>>]) :
        sy \in Systems, i \in {1, 4, 6}, lit \in BadLits}
BadGridInputs ==
    {Input("badnum", << >>, BaseLines("Grid", "Geodetic", "Deg", 1, 2),
           <<IF first THEN lit \o <<" ", "2">> ELSE <<"1", " ">> \o lit>>,
           [where |-> "data", literal |-> lit, lineno |-> 16, span |-> <<0, 0>>]) :
        first \in BOOLEAN, lit \in BadLits}
BadSparseInputs ==
    {Input("badnum", << >>, BaseLines("Sparse", sy[1], sy[2], 1, 3),
           <<IF at = 1 THEN lit \o <<" ">> \o CoordLit(sy[2], 2) \o <<" ", "3">>
             ELSE IF at = 2 THEN CoordLit(sy[2], 1) \o <<" ">> \o lit \o <<" ", "3">>
             ELSE CoordLit(sy[2], 1) \o <<" ">> \o CoordLit(sy[2], 2) \o <<" ">> \o lit>>,
           [where |-> "data", literal |-> lit, lineno |-> 14, span |-> <<0, 0>>]) :
        sy \in Systems, at \in 1..3, lit \in BadLits}
BadNumberInputs == BadHeaderInputs \cup BadGridInputs \cup BadSparseInputs
\* texts that differ only in the spaces around keys, values and cells
RePad(line, p) ==
    Repeat(" ", p[1]) \o Trim(SubSeq(line, 1, FindIn(line, {"="}) - 1))
        \o Repeat(" ", p[2]) \o <<"=">> \o Repeat(" ", p[3])
        \o Trim(SubSeq(line, FindIn(line, {"="}) + 1, Len(line))) \o Repeat(" ", p[4])
PadRow(cells, q) ==
    Repeat(" ", q[1]) \o cells[1]
        \o (IF Len(cells) >= 2 THEN Repeat(" ", q[2]) \o cells[2] ELSE << >>)
        \o (IF Len(cells) >= 3 THEN Repeat(" ", q[2]) \o cells[3] ELSE << >>)
        \o Repeat(" ", q[3])
HeaderPads == {0, 2} \X {0, 1, 3} \X {0, 1, 2} \X {0, 2}
RowPads == {0, 1, 3} \X {1, 2, 4} \X {0, 1, 3}
PadSystems ==
    {<<"Grid", sy>> : sy \in Systems}
        \cup {<<"Sparse", sy>> : sy \in {s \in Systems : s[2] # "DMS"}}
PadCells(data_format, units) ==
    IF data_format = "Grid" THEN <<<<"1">>, <<"2">>>>
    ELSE <<CoordLit(units, 1), CoordLit(units, 2), <<"3">>>>
PadInputsOf(data_format, sy, p, q, which) ==
    Input("pad", << >>,
          [j \in 1..(Len(BaseLines(data_format, sy[1], sy[2], 1, 3)) + 1) |->
              LET line == (BaseLines(data_format, sy[1], sy[2], 1,
                                     IF data_format = "Grid" THEN 2 ELSE 3)
                              \o <<HL("ModelName", <<"a", " ", "b">>)>>)[j]
              IN  IF which = "all" \/ j % 2 = 1 THEN RePad(line, p)
                  ELSE RePad(line, <<0, 1, 1, 0>>)],
          <<PadRow(PadCells(data_format, sy[2]), q)>>,
          [data_format |-> data_format, coord_type |-> sy[1], units |-> sy[2],
           header |-> p, row |-> q])
PadInputs ==
    {PadInputsOf(s[1], s[2], p, <<0, 1, 0>>, w) :
        s \in PadSystems, p \in HeaderPads, w \in {"all", "odd"}}
    \cup {PadInputsOf(s[1], s[2], <<0, 1, 1, 0>>, q, "all") :
            s \in PadSystems, q \in RowPads}
\* texts with one or two problems, each of a stage of from_str: 1 no
\* begin_of_head line; 2 a header line (at 1: the second, at 2: the last)
\* without separator, with an unknown key or with a key seen before; 3 no
\* end_of_head line; 4 the value of the at-th field of ValueOrder is x;
\* 5 a cell is x (at 1: row 1 cell 1, at 2: row 1 cell 2, at 3: row 2 cell 1).
\* The header lines stand in the reverse of the order of the fields.
ValueOrder ==
    <<"IsgFormat", "DataFormat", "CoordType", "CoordUnits", "LatMin", "ModelType",
      "DataType", "DataUnits", "DataOrdering", "TideSystem", "NRows", "NCols", "NoData",
      "CreationDate">>
Problems ==
    {[stage |-> 1, what |-> "boh", at |-> 0], [stage |-> 3, what |-> "eoh", at |-> 0]}
    \cup [stage : {2}, what : {"sep", "key", "dup"}, at : 1..2]
    \cup [stage : {4}, what : {"value"}, at : 1..Len(ValueOrder)]
    \cup [stage : {5}, what : {"cell"}, at : 1..3]
ProblemSets ==
    {ds \in {{a, b} : a \in Problems, b \in Problems} :
        \A a \in ds, b \in ds : (a.stage = 2 /\ b.stage = 2 /\ a.at = b.at) => a = b}
OrderFull ==
    BaseLines("Grid", "Geodetic", "Deg", 2, 2)
        \o [i \in 1..Len(OptionalLines) |-> HL(OptionalLines[i][1], OptionalLines[i][2])]
OrderBase(ds) ==
    [i \in 1..Len(OrderFull) |->
        LET line == OrderFull[Len(OrderFull) + 1 - i]
        IN  IF \E d \in ds : d.stage = 4 /\ ValueOrder[d.at] = LineKey(line)
            THEN HL(LineKey(line), <<"x">>)
            ELSE line]
ProblemLine(what, base) ==
    CASE what = "sep" -> <<"j", "u", "n", "k">>
      [] what = "key" -> <<"f", "o", "o", " ", "=", " ", "1">>
      [] OTHER -> base[1]
OrderLinesAt(ds, at, base) ==
    IF \E d \in ds : d.stage = 2 /\ d.at = at
    THEN <<ProblemLine((CHOOSE d \in ds : d.stage = 2 /\ d.at = at).what, base)>>
    ELSE << >>
OrderLines(ds, base) ==
    <<base[1]>> \o OrderLinesAt(ds, 1, base) \o Tail(base) \o OrderLinesAt(ds, 2, base)
OrderBody(ds) ==
    [r \in 1..2 |->
        (IF [stage |-> 5, what |-> "cell", at |-> 2 * r - 1] \in ds
         THEN <<"x">> ELSE NatStr(2 * r - 1))
        \o <<" ">>
        \o (IF r = 1 /\ [stage |-> 5, what |-> "cell", at |-> 2] \in ds
            THEN <<"x">> ELSE NatStr(2 * r))]
OrderInputs ==
    {Input("order", << >>, OrderLines(ds, OrderBase(ds)), OrderBody(ds),
           [problems |-> ds,
            boh |-> \A d \in ds : d.stage # 1,
            eoh |-> \A d \in ds : d.stage # 3]) : ds \in ProblemSets}
\* headers in DMS whose lat min is <degree>°<minutes>'<seconds>" with each
\* part inside, at the edge of, or outside the width of its integer
DMSParts ==
    {-32769, -32768, 0, 32767, 32768} \X {-1, 0, 60, 255, 256} \X {0, 59, 255, 256}
DMSLiteral(p) ==
    IntToString(p[1]) \o <<"DEG">> \o IntToString(p[2]) \o <<"'">>
        \o IntToString(p[3]) \o <<"DQ">>
DMSInputs ==
    {Input("dms", << >>,
           [j \in 1..Len(BaseLines("Grid", "Geodetic", "DMS", 1, 2)) |->
               IF j = 5 THEN HL("LatMin", DMSLiteral(p))
               ELSE BaseLines("Grid", "Geodetic", "DMS", 1, 2)[j]],
           <<<<"1", " ", "2">>>>,
           [degree |-> p[1], minutes |-> p[2], second |-> p[3]]) : p \in DMSParts}
Inputs ==
    RoundInputs \cup CharInputs \cup BoundsInputs \cup DupInputs \cup GridInputs
    \cup SparseInputs \cup NoDataInputs \cup MissingInputs
    \cup DeltaInputs \cup UnitsInputs \cup NoBohInputs
    \cup TextInputs \cup BadNumberInputs
    \cup PadInputs \cup OrderInputs \cup DMSInputs

(***************************************************************************)
(* The program: from_str run one tokenizer step at a time on text, then    *)
(* validate and to_string on the document, then from_str again on the      *)
(* serialized text.                                                        *)
(***************************************************************************)
MaxRounds == 2

VARIABLES
    input,    \* the input the first text was rendered from
    round,    \* how many times the text has been serialized and parsed again
    text,     \* the string given to from_str
    ls,       \* Tokenizer.lines: the lines of text
    idx,      \* how many lines the tokenizer has consumed
    pc,       \* where from_str stands
    comment,  \* the comment from_str keeps
    store,    \* the HeaderStore being filled
    header,   \* the Header once assembled
    eoh,      \* the lineno of the end_of_head token
    rno,      \* the row counter of parse_data_grid / parse_data_sparse
    rows,     \* the rows parsed so far
    result,   \* what from_str returned
    valid,    \* what validate returned on the document
    out,      \* what to_string returned on the document
    prev      \* the document, verdict and serialization of the round before

vars == <<input, round, text, ls, idx, pc, comment, store, header, eoh, rno, rows,
          result, valid, out, prev>>

\* a Tokenizer::new(s) and from_str's locals before its first step
Start(s) ==
    /\ text' = s
    /\ ls' = Lines(s)
    /\ idx' = 0
    /\ pc' = "comment"
    /\ comment' = << >>
    /\ store' = EmptyStore
    /\ header' = None
    /\ eoh' = 0
    /\ rno' = 0
    /\ rows' = << >>
    /\ result' = None
    /\ valid' = None
    /\ out' = None

Init ==
    /\ input \in Inputs
    /\ round = 0
    /\ text = Render(input)
    /\ ls = Lines(text)
    /\ idx = 0
    /\ pc = "comment"
    /\ comment = << >>
    /\ store = EmptyStore
    /\ header = None
    /\ eoh = 0
    /\ rno = 0
    /\ rows = << >>
    /\ result = None
    /\ valid = None
    /\ out = None
    /\ prev = None

\* from_str returns early with an error
Fail(e) ==
    /\ result' = Some(Err(e))
    /\ pc' = "done"

TokenizeComment ==
    /\ pc = "comment"
    /\ LET r == tokenize_comment(text, ls)
       IN  IF r.ok
           THEN /\ comment' = r.val.comment
                /\ idx' = r.val.idx
                /\ pc' = "begin"
                /\ UNCHANGED result
           ELSE /\ Fail(r.err)
                /\ UNCHANGED <<comment, idx>>
    /\ UNCHANGED <<input, round, text, ls, store, header, eoh, rno, rows, valid, out, prev>>

TokenizeBeginOfHeader ==
    /\ pc = "begin"
    /\ LET r == tokenize_begin_of_header(ls, idx)
       IN  IF r.ok
           THEN /\ idx' = idx + 1
                /\ pc' = "header"
                /\ UNCHANGED result
           ELSE /\ Fail(r.err)
                /\ UNCHANGED idx
    /\ UNCHANGED <<input, round, text, ls, comment, store, header, eoh, rno, rows,
                   valid, out, prev>>

\* one turn of the loop of HeaderStore::from_tokenizer
HeaderLine ==
    /\ pc = "header"
    /\ LET r == from_tokenizer_step(store, ls, idx)
       IN  IF ~r.ok
           THEN /\ Fail(r.err)
                /\ UNCHANGED <<store, idx>>
           ELSE IF r.val.end
           THEN /\ pc' = "assemble"
                /\ UNCHANGED <<store, idx, result>>
           ELSE /\ store' = r.val.store
                /\ idx' = idx + 1
                /\ UNCHANGED <<pc, result>>
    /\ UNCHANGED <<input, round, text, ls, comment, header, eoh, rno, rows, valid, out, prev>>

\* HeaderStore::header
AssembleHeader ==
    /\ pc = "assemble"
    /\ LET r == header_of(store)
       IN  IF r.ok
           THEN /\ header' = Some(r.val)
                /\ pc' = "end"
                /\ UNCHANGED result
           ELSE /\ Fail(r.err)
                /\ UNCHANGED header
    /\ UNCHANGED <<input, round, text, ls, idx, comment, store, eoh, rno, rows,
                   valid, out, prev>>

TokenizeEndOfHeader ==
    /\ pc = "end"
    /\ LET r == tokenize_end_of_header(ls, idx)
       IN  IF r.ok
           THEN /\ eoh' = r.val.lineno
                /\ idx' = idx + 1
                /\ pc' = "data"
                /\ UNCHANGED result
           ELSE /\ Fail(r.err)
                /\ UNCHANGED <<eoh, idx>>
    /\ UNCHANGED <<input, round, text, ls, comment, store, header, rno, rows, valid, out, prev>>

\* one turn of the while loop of parse_data_grid / parse_data_sparse
DataRow ==
    /\ pc = "data"
    /\ idx < Len(ls)
    /\ LET r == data_row(ls[idx + 1], idx + 1, Unwrap(header), eoh, rno)
       IN  IF r.ok
           THEN /\ rows' = Append(rows, r.val)
                /\ rno' = rno + 1
                /\ idx' = idx + 1
                /\ UNCHANGED <<pc, result>>
           ELSE /\ Fail(r.err)
                /\ UNCHANGED <<rows, rno, idx>>
    /\ UNCHANGED <<input, round, text, ls, comment, store, header, eoh, valid, out, prev>>

\* tokenize_data returns None: the row-count check and from_str's Ok(ISG)
DataEnd ==
    /\ pc = "data"
    /\ idx = Len(ls)
    /\ LET r == data_end(Unwrap(header), eoh, rno, rows)
       IN  IF r.ok
           THEN /\ result' = Some(Ok([comment |-> comment, header |-> Unwrap(header),
                                      data |-> r.val]))
                /\ pc' = "done"
           ELSE Fail(r.err)
    /\ UNCHANGED <<input, round, text, ls, idx, comment, store, header, eoh, rno, rows,
                   valid, out, prev>>

Parsed == pc = "done" /\ IsSome(result) /\ Unwrap(result).ok
Document == Unwrap(result).val

\* ISG::validate on the parsed document
Validate ==
    /\ Parsed
    /\ valid = None
    /\ valid' = Some(validate(Document))
    /\ UNCHANGED <<input, round, text, ls, idx, pc, comment, store, header, eoh, rno, rows,
                   result, out, prev>>

\* ISG::to_string on the parsed document
Serialize ==
    /\ Parsed
    /\ valid # None
    /\ out = None
    /\ out' = Some(to_string(Document))
    /\ UNCHANGED <<input, round, text, ls, idx, pc, comment, store, header, eoh, rno, rows,
                   result, valid, prev>>

\* from_str on the serialized text
Reparse ==
    /\ Parsed
    /\ out # None
    /\ round < MaxRounds
    /\ round' = round + 1
    /\ prev' = Some([doc |-> Document, valid |-> Unwrap(valid), text |-> Unwrap(out)])
    /\ Start(Unwrap(out))
    /\ UNCHANGED input

Next ==
    \/ TokenizeComment
    \/ TokenizeBeginOfHeader
    \/ HeaderLine
    \/ AssembleHeader
    \/ TokenizeEndOfHeader
    \/ DataRow
    \/ DataEnd
    \/ Validate
    \/ Serialize
    \/ Reparse

Spec == Init /\ [][Next]_vars
(***************************************************************************)
(* Round trips.                                                            *)
(***************************************************************************)
\* the round before returned a document and it was serialized into text
Reparsed == round >= 1 /\ pc = "done"

\* C1: for every document d a successful parse returned,
\* parse(serialize(d)) succeeds and yields a document equal to d.
C1_ParseOfSerializeIsIdentity ==
    Reparsed => /\ Unwrap(result).ok
                /\ ISGEq(Unwrap(result).val, Unwrap(prev).doc)

\* C2: for every text s that serialize produced from a document validate
\* accepts, and that parse accepts, serialize(parse(s)) is s, byte for byte.
C2_SerializeOfParseIsIdentity ==
    (Reparsed /\ Unwrap(prev).valid.ok /\ IsSome(out)) => Unwrap(out) = text

\* C3: for any text s that parse accepts, one parse/serialize pass reaches a
\* fixed point: serialize(parse(serialize(parse(s)))) = serialize(parse(s)),
\* also when header text values are empty or blank.
C3_OnePassIsFixedPoint ==
    (round = 1 /\ IsSome(out)) => Unwrap(out) = Unwrap(prev).text

\* C4: parse never panics: for every input string it returns a document or
\* a ParseError.
C4_ParseNeverPanics ==
    IsSome(result) => (Unwrap(result).ok \/ Unwrap(result).err.kind # "Panic")

\* C5: every document a successful parse returns passes validate (grid:
\* nrows rows of ncols cells; sparse: nrows entries and ncols = 3).
C5_ParsedDocumentIsValid ==
    (Parsed /\ IsSome(valid)) => Unwrap(valid).ok
(***************************************************************************)
(* Data bounds of the other coordinate system.                             *)
(***************************************************************************)
\* the keys of the other coordinate system the input header holds
ForeignKeys == IF input.fam = "bounds" THEN input.tag.extras ELSE {}

\* C6: with the lines of the header tokenizing and ISG format, data format,
\* coord type and coord units present and valid, a key of the other
\* coordinate system that is present (whatever its value, even ---) makes
\* parse fail with InvalidDataBounds naming a present key of the other
\* system and the active coord type, also when a key of the active system
\* is missing.
C6_ForeignBoundsKeyIsRejected ==
    (round = 0 /\ pc = "done" /\ ForeignKeys # {}) =>
        /\ ~Unwrap(result).ok
        /\ Unwrap(result).err.kind = "InvalidDataBounds"
        /\ Unwrap(result).err.field \in ForeignKeys
        /\ Unwrap(result).err.coord_type = input.tag.coord_type

\* C6 witness: a header that lacks a key of the active system and holds a
\* key of the other system with the value --- has been rejected.
C6_Witness ==
    /\ round = 0
    /\ pc = "done"
    /\ ForeignKeys # {}
    /\ input.tag.drop = 1
    /\ input.tag.value = PLACEHOLDER
    /\ Unwrap(result).err.kind = "InvalidDataBounds"
(***************************************************************************)
(* Duplicated header keys.                                                 *)
(***************************************************************************)
\* what the claim expects of an input that holds a key twice: the error
\* names the key and carries the line number of the second occurrence and
\* the byte span of its key
DupReported ==
    /\ ~Unwrap(result).ok
    /\ Unwrap(result).err.kind = "DuplicatedHeaderKey"
    /\ Unwrap(result).err.field = input.tag.key
    /\ Unwrap(result).err.lineno = Some(input.tag.clines + 1 + input.tag.second)
    /\ Unwrap(result).err.span =
           Some(<<input.tag.indent, input.tag.indent + Len(KeyText(input.tag.key))>>)

\* the tokenizer got past the comment and the begin_of_head line
HeaderReached ==
    pc = "done" /\ idx >= 1 + (IF input.fam = "dup" THEN input.tag.clines ELSE 0)

EndOfHeadLine == Len(Lines(input.comment)) + 1 + Len(input.lines) + 1

\* the body lines that deviate from GridRows rows of GridCols cells
GridDeviations ==
    {i \in 1..Len(input.tag.counts) : i > GridRows \/ input.tag.counts[i] # GridCols}
FirstDeviation == CHOOSE i \in GridDeviations : \A j \in GridDeviations : i <= j

LengthError(length, direction) ==
    /\ ~Unwrap(result).ok
    /\ Unwrap(result).err.kind = "InvalidDataLength"
    /\ Unwrap(result).err.length = length
    /\ Unwrap(result).err.direction = direction

\* C8: with a valid grid header of nrows = R and ncols = C and all cells
\* valid decimals, R rows of C cells parse; otherwise the first deviating
\* line decides: a line beyond R is a too-long row, a row of more than C
\* cells a too-long column and a row of fewer a too-short column, each column
\* error with the line number of that row; fewer than R rows, all of C
\* cells, is a too-short row.
C8_GridLengths ==
    (round = 0 /\ input.fam = "grid" /\ pc = "done") =>
        IF GridDeviations = {}
        THEN IF Len(input.tag.counts) = GridRows
             THEN /\ Unwrap(result).ok
                  /\ Len(Unwrap(result).val.data.rows) = GridRows
                  /\ \A i \in 1..GridRows : Len(Unwrap(result).val.data.rows[i]) = GridCols
             ELSE LengthError("Short", "Row")
        ELSE IF FirstDeviation > GridRows THEN LengthError("Long", "Row")
        ELSE /\ LengthError(IF input.tag.counts[FirstDeviation] > GridCols
                            THEN "Long" ELSE "Short", "Column")
             /\ Unwrap(result).err.lineno = Some(EndOfHeadLine + FirstDeviation)

\* C8 witness: the second row of a body, after a row of C cells, has been
\* rejected as too long.
C8_Witness ==
    /\ round = 0
    /\ input.fam = "grid"
    /\ pc = "done"
    /\ Len(input.tag.counts) >= 2
    /\ input.tag.counts[1] = GridCols
    /\ input.tag.counts[2] = GridCols + 1
    /\ LengthError("Long", "Column")
(***************************************************************************)
(* The sparse body.                                                        *)
(***************************************************************************)
SparseDone == round = 0 /\ input.fam = "sparse" /\ pc = "done"

\* every coordinate of the body is of the variant the units imply
SparseStylesMatch ==
    \A i \in 1..Len(input.tag.rows) : input.tag.rows[i].style = StyleOf(input.tag.units)

\* the body lines that deviate from SparseRows rows of 3 cells
SparseDeviations ==
    {i \in 1..Len(input.tag.rows) : i > SparseRows \/ input.tag.rows[i].count # 3}
FirstSparseDeviation == CHOOSE i \in SparseDeviations : \A j \in SparseDeviations : i <= j

\* C9: in sparse format, with the coordinates well-formed for the units, a
\* row of fewer than 3 cells fails with a too-short column and a row of more
\* than 3 cells with a too-long column, each with that row's line number;
\* an extra row fails with a too-long row and a missing row with a
\* too-short row.
C9_SparseLengths ==
    (SparseDone /\ SparseStylesMatch /\ (SparseDeviations # {} \/ Len(input.tag.rows) < SparseRows)) =>
        IF SparseDeviations = {} THEN LengthError("Short", "Row")
        ELSE IF FirstSparseDeviation > SparseRows THEN LengthError("Long", "Row")
        ELSE /\ LengthError(IF input.tag.rows[FirstSparseDeviation].count > 3
                            THEN "Long" ELSE "Short", "Column")
             /\ Unwrap(result).err.lineno = Some(EndOfHeadLine + FirstSparseDeviation)

\* C10: in sparse format, SparseRows rows of 3 cells parse exactly when the
\* coordinates are of the variant the units imply: under dms two DMS
\* literals as the serializer renders them and a decimal give
\* (DMS, DMS, value), under deg, meters or feet three decimals give
\* (Dec, Dec, value); a coordinate of the other variant is InvalidData.
C10_SparseCoordinates ==
    (SparseDone /\ SparseDeviations = {} /\ Len(input.tag.rows) = SparseRows) =>
        IF SparseStylesMatch
        THEN /\ Unwrap(result).ok
             /\ \A i \in 1..SparseRows :
                    Unwrap(result).val.data.rows[i] =
                        <<SparseCoord(StyleOf(input.tag.units), i, 1),
                          SparseCoord(StyleOf(input.tag.units), i, 2),
                          SparseF64(i, 3)>>
        ELSE /\ ~Unwrap(result).ok
             /\ Unwrap(result).err.kind = "InvalidData"
(***************************************************************************)
(* Absent cells of a grid.                                                 *)
(***************************************************************************)
\* an f64 of the model in millionths
Micro(v) == (IF v.neg THEN -1 ELSE 1) * (v.int * 1000000 + v.frac)

GridParsed == Parsed /\ Document.header.data_format = "Grid"

\* the text a grid row is expected to serialize to: the cells in 10
\* characters with 4 decimals, an absent cell as the nodata value
RECURSIVE FilledRow(_, _, _)
FilledRow(row, nodata, j) ==
    IF j > Len(row) THEN << >>
    ELSE (IF j > 1 THEN <<" ">> ELSE << >>)
         \o PadLeft(F64Fixed(IF IsSome(row[j]) THEN Unwrap(row[j]) ELSE Unwrap(nodata), 4), 10)
         \o FilledRow(row, nodata, j + 1)

\* C11: in a parsed grid a cell is absent exactly when nodata is set and the
\* cell's number equals it, and a present cell holds its number; serialized,
\* an absent cell reads as a present cell holding the nodata value, and it
\* parses back to absent.
C11_AbsentCells ==
    /\ (GridParsed /\ round = 0 /\ input.fam = "nodata") =>
          \A j \in 1..2 :
             LET c == Document.data.rows[1][j]
                 lit == input.tag.cells[j]
             IN  /\ (c = None) <=> (input.tag.nodata.set /\ lit.micro = input.tag.nodata.micro)
                 /\ c # None => Micro(Unwrap(c)) = lit.micro
    /\ GridParsed =>
          \A i \in 1..Len(Document.data.rows) : \A j \in 1..Len(Document.data.rows[i]) :
             LET c == Document.data.rows[i][j]
                 nd == Document.header.nodata
             IN  IF IsSome(nd) THEN (c = None \/ ~F64Eq(Unwrap(nd), Unwrap(c)))
                 ELSE c # None
    /\ (GridParsed /\ IsSome(out)) =>
          LET ol == Lines(Unwrap(out))
              n  == Len(Document.data.rows)
          IN  \A i \in 1..n :
                 ol[Len(ol) - n + i] = FilledRow(Document.data.rows[i], Document.header.nodata, 1)
    /\ (Reparsed /\ Unwrap(prev).doc.header.data_format = "Grid") =>
          /\ Unwrap(result).ok
          /\ \A i \in 1..Len(Unwrap(prev).doc.data.rows) :
                \A j \in 1..Len(Unwrap(prev).doc.data.rows[i]) :
                   Unwrap(prev).doc.data.rows[i][j] = None
                      => Document.data.rows[i][j] = None

\* a grid with an absent cell was serialized and parsed again
C11_Witness ==
    /\ input.fam = "nodata"
    /\ Reparsed
    /\ \E j \in 1..2 : Unwrap(prev).doc.data.rows[1][j] = None
    /\ \E j \in 1..2 : Unwrap(prev).doc.data.rows[1][j] # None
(***************************************************************************)
(* Missing header keys.                                                    *)
(***************************************************************************)
\* the field of a Header that a key fills
FieldOf(h, key) ==
    CASE key = "ModelName" -> h.model_name
      [] key = "ModelYear" -> h.model_year
      [] key = "ModelType" -> h.model_type
      [] key = "DataType" -> h.data_type
      [] key = "DataUnits" -> h.data_units
      [] key = "DataOrdering" -> h.data_ordering
      [] key = "RefEllipsoid" -> h.ref_ellipsoid
      [] key = "RefFrame" -> h.ref_frame
      [] key = "HeightDatum" -> h.height_datum
      [] key = "TideSystem" -> h.tide_system
      [] key = "MapProjection" -> h.map_projection
      [] key = "EpsgCode" -> h.EPSG_code
      [] key = "NoData" -> h.nodata
      [] key = "CreationDate" -> h.creation_date

\* the keys the claim takes as mandatory
MandatoryKeys(data_format, coord_type) ==
    {"IsgFormat", "DataFormat", "CoordType", "CoordUnits", "NRows", "NCols"}
    \cup {BoundKeys(coord_type)[i] : i \in 1..(IF data_format = "Grid" THEN 6 ELSE 4)}

\* HeaderStore::header has returned
HeaderDone == pc \in {"end", "data", "done"}

\* C12: leaving a key out is a MissingHeaderKey error naming the field
\* exactly for ISG format, data format, coord type, coord units, nrows, ncols
\* and the bounds (under grid also the deltas) of the active system; any other
\* key, nodata included, may be left out and is then absent, as with ---.
C12_MissingKeys ==
    (round = 0 /\ input.fam = "missing" /\ HeaderDone) =>
        IF input.tag.key \in MandatoryKeys(input.tag.data_format, input.tag.coord_type)
        THEN input.tag.mode = "omit" =>
                 /\ pc = "done"
                 /\ result = Some(Err(missing_header(input.tag.key)))
        ELSE /\ IsSome(header)
             /\ FieldOf(Unwrap(header), input.tag.key) = None
(***************************************************************************)
(* The variant of the data bounds and the delta keys.                      *)
(***************************************************************************)
\* the variant (data format, coord type) selects
SelectedVariant(data_format, coord_type) ==
    (IF data_format = "Grid" THEN "Grid" ELSE "Sparse")
    \o (IF coord_type = "Geodetic" THEN "Geodetic" ELSE "Projected")

\* what a delta key in the given state must be answered with: "ok" or the
\* kind of the error
DeltaVerdict(data_format, state) ==
    IF data_format = "Grid"
    THEN CASE state = "good" -> "ok"
           [] state = "missing" -> "MissingHeaderKey"
           [] OTHER -> "InvalidHeaderValue"
    ELSE IF state \in {"missing", "dash"} THEN "ok" ELSE "InvalidHeaderValue"

\* C13: the variant of a parsed header's data bounds is the one (data
\* format, coord type) selects.  Under grid both deltas of the active system
\* must be present and of the variant coord units imply: a missing one is
\* MissingHeaderKey, --- or another variant InvalidHeaderValue.  Under sparse
\* each delta must be missing or ---, any other value is InvalidHeaderValue.
C13_VariantAndDeltas ==
    /\ IsSome(header) =>
          Unwrap(header).data_bounds.variant
             = SelectedVariant(Unwrap(header).data_format, Unwrap(header).coord_type)
    /\ (round = 0 /\ input.fam = "delta" /\ HeaderDone) =>
          LET t == input.tag
              v == [i \in 1..2 |-> DeltaVerdict(t.data_format, t.states[i])]
          IN  IF v[1] = "ok" /\ v[2] = "ok"
              THEN /\ IsSome(header)
                   /\ Unwrap(header).data_format = t.data_format
                   /\ Unwrap(header).coord_type = t.coord_type
              ELSE /\ pc = "done"
                   /\ ~Unwrap(result).ok
                   /\ \E i \in 1..2 :
                         /\ v[i] # "ok"
                         /\ Unwrap(result).err.kind = v[i]
                         /\ Unwrap(result).err.field = BoundKeys(t.coord_type)[4 + i]

\* a sparse header with one delta --- and the other a valid coordinate was
\* rejected, and so was a grid header with a delta of the wrong variant
C13_Witness ==
    /\ input.fam = "delta"
    /\ pc = "done"
    /\ \/ input.tag.data_format = "Sparse" /\ input.tag.states = <<"dash", "good">>
       \/ input.tag.data_format = "Grid" /\ input.tag.states = <<"good", "wrong">>
    /\ Unwrap(result).err.kind = "InvalidHeaderValue"
(***************************************************************************)
(* Bounds of the variant the units do not imply.                           *)
(***************************************************************************)
\* the byte range of the value that follows key, '=' and pad spaces
ValueSpan(key, pad, value) ==
    <<Len(KeyText(key)) + 2 + pad, Len(KeyText(key)) + 2 + pad + ByteLen(value)>>

\* C14: a min, max or delta of the active system that parses as a coordinate
\* of the variant coord units do not imply (a decimal under dms, a DMS
\* literal under deg, meters or feet) makes parse fail with
\* InvalidHeaderValue naming the field, with the line and the span of the
\* value; this is so for each of the fields.
C14_WrongVariantRejected ==
    (round = 0 /\ input.fam = "units" /\ HeaderDone) =>
        /\ pc = "done"
        /\ ~Unwrap(result).ok
        /\ Unwrap(result).err.kind = "InvalidHeaderValue"
        /\ Unwrap(result).err.field = input.tag.key
        /\ Unwrap(result).err.lineno = Some(input.tag.lineno)
        /\ Unwrap(result).err.span
              = Some(ValueSpan(input.tag.key, input.tag.pad, WrongLit(input.tag.units)))

\* a header whose last bound is a DMS literal under deg was rejected
C14_Witness ==
    /\ input.fam = "units"
    /\ input.tag.units = "Deg"
    /\ input.tag.key = "LonMax"
    /\ input.tag.pad = 3
    /\ pc = "done"
    /\ Unwrap(result).err.kind = "InvalidHeaderValue"
(***************************************************************************)
(* Documents built by a caller: ISG, Header and Data have public fields,   *)
(* so validate and to_string also meet documents from_str never returns.   *)
(* A document is a well-formed one of two rows changed by a set of         *)
(* defects.                                                                *)
(***************************************************************************)
\* the subsets of s of at most two elements
UpToTwo(s) == {{}} \cup {{a, b} : a \in s, b \in s}

\* isg: ISG_format is not 2.0; variant: the bounds are of the other data
\* format's variant; bounds: the bounds (1..4) and deltas (5, 6) that are of
\* the wrong variant of coordinate; nrows, ncols: the header counts one more
\* than the data holds; cells: the <<row, column>> of the sparse coordinates
\* of the wrong variant; nodata: whether nodata is set; absent: whether the
\* first cell of a grid is absent
Defects(data_format) ==
    [isg : BOOLEAN, variant : BOOLEAN,
     bounds : UpToTwo(1..(IF data_format = "Grid" THEN 6 ELSE 4)),
     nrows : BOOLEAN, ncols : BOOLEAN,
     cells : IF data_format = "Grid" THEN {{}} ELSE UpToTwo((1..2) \X (1..2)),
     nodata : IF data_format = "Grid" THEN BOOLEAN ELSE {TRUE},
     absent : IF data_format = "Grid" THEN BOOLEAN ELSE {FALSE}]

OtherStyle(units) == IF units = "DMS" THEN "dec" ELSE "dms"
DocCoord(units, wrong, i) ==
    SparseCoord(IF wrong THEN OtherStyle(units) ELSE StyleOf(units), i, 1)

DocBounds(data_format, sy, d) ==
    LET grid == (data_format = "Grid") # d.variant
        c(i) == DocCoord(sy[2], i \in d.bounds, i)
        four == [variant |-> (IF grid THEN "Grid" ELSE "Sparse") \o sy[1],
                 min1 |-> c(1), max1 |-> c(2), min2 |-> c(3), max2 |-> c(4)]
    IN  IF grid
        THEN [f \in DOMAIN four \cup {"delta1", "delta2"} |->
                 IF f = "delta1" THEN c(5) ELSE IF f = "delta2" THEN c(6) ELSE four[f]]
        ELSE four

DocHeader(data_format, sy, d) ==
    [model_name |-> None, model_year |-> None, model_type |-> None, data_type |-> None,
     data_units |-> None, data_format |-> data_format, data_ordering |-> None,
     ref_ellipsoid |-> None, ref_frame |-> None, height_datum |-> None,
     tide_system |-> None, coord_type |-> sy[1], coord_units |-> sy[2],
     map_projection |-> None, EPSG_code |-> None,
     data_bounds |-> DocBounds(data_format, sy, d),
     nrows |-> IF d.nrows THEN 3 ELSE 2,
     ncols |-> (IF data_format = "Grid" THEN 2 ELSE 3) + (IF d.ncols THEN 1 ELSE 0),
     nodata |-> IF d.nodata THEN Some([neg |-> TRUE, int |-> 9, frac |-> 0]) ELSE None,
     creation_date |-> None,
     ISG_format |-> IF d.isg THEN <<"1", ".", "0">> ELSE ISG_VERSION]

DocData(data_format, sy, d) ==
    IF data_format = "Grid"
    THEN [variant |-> "Grid",
          rows |-> [i \in 1..2 |-> [j \in 1..2 |->
                       IF d.absent /\ i = 1 /\ j = 1 THEN None ELSE Some(SparseF64(i, j))]]]
    ELSE [variant |-> "Sparse",
          rows |-> [i \in 1..2 |->
                       <<DocCoord(sy[2], <<i, 1>> \in d.cells, i),
                         DocCoord(sy[2], <<i, 2>> \in d.cells, i), SparseF64(i, 3)>>]]

Doc(data_format, sy, d) ==
    [comment |-> << >>, header |-> DocHeader(data_format, sy, d),
     data |-> DocData(data_format, sy, d)]

DocInputs ==
    {Input("doc", << >>, << >>, << >>,
           [doc |-> Doc(df, sy, d), defects |-> d, data_format |-> df, coord_type |-> sy[1]]) :
        <<df, sy, d>> \in
            UNION {{<<f, s, e>> : s \in Systems, e \in Defects(f)} : f \in {"Grid", "Sparse"}}}

\* documents whose header is sound and whose data is of the variant data_of
MixedDoc(data_format, sy, ncols, data_of) ==
    LET clean == [isg |-> FALSE, variant |-> FALSE, bounds |-> {}, nrows |-> FALSE,
                  ncols |-> FALSE, cells |-> {}, nodata |-> TRUE, absent |-> FALSE]
    IN  [comment |-> << >>,
         header |-> [DocHeader(data_format, sy, clean) EXCEPT !.ncols = ncols],
         data |-> DocData(data_of, sy, clean)]
MixedInputs ==
    {Input("mixed", << >>, << >>, << >>,
           [doc |-> MixedDoc(df, sy, nc, of), data_format |-> df, coord_type |-> sy[1]]) :
        df \in {"Grid", "Sparse"}, sy \in Systems, nc \in 2..3, of \in {"Grid", "Sparse"}}

\* a caller holds the document
DocInit ==
    /\ input \in DocInputs \cup MixedInputs
    /\ round = 0
    /\ text = << >>
    /\ ls = << >>
    /\ idx = 0
    /\ pc = "done"
    /\ comment = << >>
    /\ store = EmptyStore
    /\ header = Some(input.tag.doc.header)
    /\ eoh = 0
    /\ rno = 0
    /\ rows = input.tag.doc.data.rows
    /\ result = Some(Ok(input.tag.doc))
    /\ valid = None
    /\ out = None
    /\ prev = None

DocNext ==
    \/ Validate
    \/ Serialize

DocSpec == DocInit /\ [][DocNext]_vars

\* the first violation, in the order of the claim, of a document with the
\* defects d, or Ok
FirstViolation(data_format, coord_type, d) ==
    LET lowest(s) == CHOOSE i \in s : \A j \in s : i <= j
        firstc == CHOOSE p \in d.cells :
                      \A q \in d.cells : p[1] < q[1] \/ (p[1] = q[1] /\ p[2] <= q[2])
    IN  IF d.isg THEN Err([kind |-> "ISGFormat"])
        ELSE IF d.variant
        THEN Err([kind |-> "DataBounds", data_format |-> data_format,
                  coord_type |-> coord_type])
        ELSE IF d.bounds # {}
        THEN Err([kind |-> "CoordUnitsOnHeader",
                  field |-> BoundKeys(coord_type)[lowest(d.bounds)]])
        ELSE IF d.nrows THEN Err([kind |-> "NoRow", nrows |-> 3, actual |-> 2])
        ELSE IF d.ncols
        THEN Err([kind |-> "NoCols",
                  ncols |-> IF data_format = "Grid" THEN 3 ELSE 4,
                  actual |-> IF data_format = "Grid" THEN Some(2) ELSE None])
        ELSE IF d.cells # {}
        THEN Err([kind |-> "CoordUnitsOnData", lineno |-> firstc[1], column |-> firstc[2]])
        ELSE Ok(TRUE)

\* C15: validate returns the first violation only, in the order ISG_format,
\* variant of the bounds, coordinates of the bounds (min, max of the first
\* axis, min, max of the second, deltas), row count, column count (3 for
\* sparse), sparse data coordinates by row and column; is_valid is true
\* exactly when there is none.
C15_FirstViolation ==
    (input.fam = "doc" /\ IsSome(valid)) =>
        /\ Unwrap(valid) = FirstViolation(input.tag.data_format, input.tag.coord_type,
                                          input.tag.defects)
        /\ is_valid(Document) <=> Unwrap(valid).ok
        /\ is_valid(Document) <=>
              LET d == input.tag.defects
              IN  ~d.isg /\ ~d.variant /\ d.bounds = {} /\ ~d.nrows /\ ~d.ncols /\ d.cells = {}

\* validate answered a document with a wrong coordinate in the bounds, a
\* wrong row count and a wrong data coordinate
C15_Witness ==
    /\ input.fam = "doc"
    /\ IsSome(valid)
    /\ ~input.tag.defects.isg /\ ~input.tag.defects.variant
    /\ input.tag.defects.bounds = {2, 3}
    /\ input.tag.defects.nrows
    /\ input.tag.defects.cells # {}
    /\ Unwrap(valid) = Err([kind |-> "CoordUnitsOnHeader",
                            field |-> BoundKeys(input.tag.coord_type)[2]])
(***************************************************************************)
(* No begin_of_head line.                                                  *)
(***************************************************************************)
\* C16: when no line of the input starts with begin_of_head, parse fails
\* with exactly MissingBeginOfHead, without line number or span, whatever
\* else the text holds.
C16_MissingBeginOfHead ==
    (input.fam = "noboh" /\ round = 0) =>
        /\ pc \in {"comment", "done"}
        /\ pc = "done" =>
              result = Some(Err([kind |-> "MissingBeginOfHead", span |-> None,
                                 lineno |-> None]))

\* parse answered a text with a complete header and data whose begin_of_head
\* line is indented, after a comment of CRLF lines
C16_Witness ==
    /\ input.fam = "noboh"
    /\ input.tag.first = <<<<" ">> \o BEGIN_OF_HEAD>>
    /\ Len(input.lines) > 3
    /\ \E i \in 1..Len(input.comment) : input.comment[i] = "CR"
    /\ pc = "done"
    /\ ~Unwrap(result).ok
(***************************************************************************)
(* Free-text header fields.                                                *)
(***************************************************************************)
\* C17: for model name, model year, ref ellipsoid, ref frame, height datum,
\* map projection and EPSG code the value --- parses to absent, while an
\* empty value (nothing, or only spaces, after the separator) is an error
\* and is never stored as a present empty or blank string.
C17_EmptyTextIsError ==
    /\ IsSome(header) =>
          \A k \in TextKeys :
             IsSome(FieldOf(Unwrap(header), k)) => Trim(Unwrap(FieldOf(Unwrap(header), k))) # << >>
    /\ (round = 0 /\ input.fam = "text" /\ HeaderDone) =>
          IF Trim(input.tag.value) = PLACEHOLDER
          THEN IsSome(header) /\ FieldOf(Unwrap(header), input.tag.key) = None
          ELSE IF Trim(input.tag.value) = << >>
          THEN pc = "done" /\ ~Unwrap(result).ok
          ELSE IsSome(header)
               /\ FieldOf(Unwrap(header), input.tag.key) = Some(Trim(input.tag.value))

\* the caller's document is a grid with an absent cell and no nodata
AbsentWithoutNodata ==
    /\ input.fam = "doc"
    /\ Document.data.variant = "Grid"
    /\ ~IsSome(Document.header.nodata)
    /\ \E i \in 1..Len(Document.data.rows) : \E j \in 1..Len(Document.data.rows[i]) :
          Document.data.rows[i][j] = None

\* C18: serializing a grid with an absent cell while header.nodata is absent
\* produces no text as if the document were well-formed: it reports a
\* failure and emits no substitute for the cell.
C18_AbsentWithoutNodataRefused ==
    AbsentWithoutNodata => ~IsSome(out)
(***************************************************************************)
(* Tokens: text, span and line number.                                     *)
(***************************************************************************)
\* &line[a..b] for the byte range <<a, b>>, or None when the range is not
\* one of the line
ByteSlice(line, span) ==
    IF /\ span[1] <= span[2]
       /\ CharIndex(line, span[1]) >= 0
       /\ CharIndex(line, span[2]) >= 0
    THEN Some(SubSeq(line, CharIndex(line, span[1]) + 1, CharIndex(line, span[2])))
    ELSE None

\* the maximal runs of characters other than the space, in order
RECURSIVE Words(_)
Words(line) ==
    LET from == FindNonSpace(line)
        rest == SubSeq(line, from, Len(line))
        sp   == FindIn(rest, {" "})
    IN  IF from = 0 THEN << >>
        ELSE IF sp = 0 THEN <<rest>>
        ELSE <<SubSeq(rest, 1, sp - 1)>> \o Words(SubSeq(rest, sp, Len(rest)))

\* what DataColumnIterator yields on a line, a panic included
RECURSIVE DataTokens(_, _, _)
DataTokens(line, lineno, pos) ==
    LET t == DataColumnNext(line, lineno, pos)
    IN  IF t.kind = "none" THEN << >>
        ELSE IF t.kind = "panic" THEN <<t>>
        ELSE <<t>> \o DataTokens(line, lineno, t.pos)

\* the token holds the text, its byte range in the line, and the line's
\* number
TokenIs(token, txt, line, lineno) ==
    /\ token.value = txt
    /\ ByteSlice(line, token.span) = Some(txt)
    /\ token.lineno = lineno

\* the header line the tokenizer is about to split into key, separator and value
AtHeaderLine ==
    /\ pc = "header"
    /\ idx < Len(ls)
    /\ tokenize_header(ls, idx).ok
    /\ tokenize_header(ls, idx).val # None

\* the data line the tokenizer is about to split into cells
AtDataLine == pc = "data" /\ idx < Len(ls)

\* C19: a header key token holds the trimmed text before the first ':' or
\* '=', a header value token the trimmed text after it, a data cell token
\* the text between runs of spaces; the span is the byte range of exactly
\* that text in its line, and the line number is the 1-based index of the
\* line in the whole input.  An empty or blank key or value gives the empty
\* text.
C19_TokenTextSpanLine ==
    /\ AtHeaderLine =>
          LET line == ls[idx + 1]
              p    == FindIn(line, {":", "="})
              t    == Unwrap(tokenize_header(ls, idx).val)
          IN  /\ TokenIs(t[1], Trim(SubSeq(line, 1, p - 1)), line, idx + 1)
              /\ TokenIs(t[3], Trim(SubSeq(line, p + 1, Len(line))), line, idx + 1)
    /\ AtDataLine =>
          LET line == ls[idx + 1]
              ts   == DataTokens(line, idx + 1, 0)
              ws   == Words(line)
          IN  /\ Len(ts) = Len(ws)
              /\ \A i \in 1..Len(ts) :
                    ts[i].kind = "tok" /\ TokenIs(ts[i].token, ws[i], line, idx + 1)
(***************************************************************************)
(* The text an error carries.                                              *)
(***************************************************************************)
\* the literal text a ParseError carries
ErrorText(e) ==
    IF e.kind = "InvalidHeaderValue" THEN Unwrap(e.source).value ELSE e.value

\* C20: when a min, max or delta of the header or a data cell fails to parse
\* as a number or coordinate, the error carries the complete literal text of
\* the token, never a fragment of it, with the token's line number and span.
C20_ErrorCarriesWholeLiteral ==
    (round = 0 /\ input.fam = "badnum" /\ pc = "done") =>
        /\ ~Unwrap(result).ok
        /\ Unwrap(result).err.kind
              = (IF input.tag.where = "header" THEN "InvalidHeaderValue" ELSE "InvalidData")
        /\ ErrorText(Unwrap(result).err) = input.tag.literal
        /\ Unwrap(result).err.lineno = Some(input.tag.lineno)
        /\ IsSome(Unwrap(result).err.span)
        /\ input.tag.where = "header" => Unwrap(result).err.span = Some(input.tag.span)
(***************************************************************************)
(* Arithmetic on coordinates (src/src/arithm.rs).  The decimal operands    *)
(* taken below are multiples of 0.25 of small size, on which f64 addition, *)
(* subtraction and multiplication by a small integer are exact.            *)
(***************************************************************************)
\* `x as i16` of an i64: the low 16 bits.  `x as u8` is written x % 256.
AsI16(x) == ((x + 32768) % 65536) - 32768

\* the f64 of a count of millionths
F64OfMicro(n) ==
    [neg |-> n < 0,
     int |-> (IF n < 0 THEN -n ELSE n) \div 1000000,
     frac |-> (IF n < 0 THEN -n ELSE n) % 1000000]

\* impl Neg for &Coord: the results a build can give.  `-degree` of
\* i16::MIN overflows: a panic with overflow checks on, i16::MIN without.
neg(self) ==
    IF self.tag = "DMS"
    THEN IF self.degree = -32768
         THEN {Err(Panicked), Ok(DMS(-32768, self.minutes, self.second))}
         ELSE {Ok(DMS(-self.degree, self.minutes, self.second))}
    ELSE {Ok(Dec([self.value EXCEPT !.neg = ~self.value.neg]))}

\* impl Mul<&$type> for &Coord
mul(self, rhs) ==
    IF rhs = 0
    THEN IF self.tag = "DMS" THEN Ok(DMS(0, 0, 0)) ELSE Ok(Dec(F64OfMicro(0)))
    ELSE IF self.tag = "DMS"
    THEN LET temp1 == self.second * rhs
             temp2 == self.minutes * rhs + temp1 \div 60
             degree == IF self.degree >= 0
                       THEN self.degree * rhs + temp2 \div 60
                       ELSE self.degree * rhs - temp2 \div 60
         IN  Ok(DMS(AsI16(degree), (temp2 % 60) % 256, (temp1 % 60) % 256))
    ELSE Ok(Dec(F64OfMicro(Micro(self.value) * rhs)))

\* impl Add<&Coord> for &Coord
add(self, rhs) ==
    IF self.tag = "DMS" /\ rhs.tag = "DMS"
    THEN LET temp1 == self.second + rhs.second
             carry1 == IF 60 <= temp1 THEN 1 ELSE 0
             temp2 == self.minutes + rhs.minutes + carry1
             carry2 == IF 60 <= temp2 THEN 1 ELSE 0
         IN  Ok(DMS(AsI16(self.degree + rhs.degree + carry2),
                    (temp2 - 60 * carry2) % 256, (temp1 - 60 * carry1) % 256))
    ELSE IF self.tag = "Dec" /\ rhs.tag = "Dec"
    THEN Ok(Dec(F64OfMicro(Micro(self.value) + Micro(rhs.value))))
    ELSE Err([kind |-> "Unimplemented"])

\* sub that borrows from the minutes and never from the degree
sub_unborrowed(self, rhs) ==
    IF self.tag = "DMS" /\ rhs.tag = "DMS"
    THEN LET carry1 == IF self.second >= rhs.second THEN 0 ELSE 1
             second == 60 * carry1 + self.second - rhs.second
             carry2 == IF self.minutes >= rhs.minutes + carry1 THEN 0 ELSE 1
             minutes == 60 * carry2 + self.minutes - rhs.minutes - carry1
         IN  Ok(DMS(AsI16(self.degree - rhs.degree), minutes % 256, second % 256))
    ELSE IF self.tag = "Dec" /\ rhs.tag = "Dec"
    THEN Ok(Dec(F64OfMicro(Micro(self.value) - Micro(rhs.value))))
    ELSE Err([kind |-> "Unimplemented"])
\* impl Sub<&Coord> for &Coord
sub(self, rhs) ==
    IF self.tag = "DMS" /\ rhs.tag = "DMS"
    THEN LET carry1 == IF self.second >= rhs.second THEN 0 ELSE 1
             second == 60 * carry1 + self.second - rhs.second
             carry2 == IF self.minutes >= rhs.minutes + carry1 THEN 0 ELSE 1
             minutes == 60 * carry2 + self.minutes - rhs.minutes - carry1
         IN  Ok(DMS(AsI16(self.degree - rhs.degree - carry2),
                    minutes % 256, second % 256))
    ELSE IF self.tag = "Dec" /\ rhs.tag = "Dec"
    THEN Ok(Dec(F64OfMicro(Micro(self.value) - Micro(rhs.value))))
    ELSE Err([kind |-> "Unimplemented"])

\* the operands the operations are applied to
MaxScale == 3
ArithDMS(degrees, minutes, seconds) ==
    {DMS(d, m, s) : d \in degrees, m \in minutes, s \in seconds}
ArithDec(micros) == {Dec(F64OfMicro(n)) : n \in micros}
LeftCoords ==
        ArithDMS({-32768, -2, -1, 0, 1, 2, 32767}, {0, 30, 59}, {0, 30, 59})
    \cup {DMS(1, 255, 255)}
    \cup ArithDec({-1500000, 0, 250000, 2000000})
RightCoords ==
        ArithDMS({-2, 0, 1, 32767}, {0, 30, 59}, {0, 30})
    \cup ArithDec({-1500000, 250000})
ArithInputs ==
    {Input("arith", << >>, << >>, << >>, [a |-> a, b |-> b, n |-> n]) :
        a \in LeftCoords, b \in RightCoords, n \in 0..MaxScale}

\* a caller holds two coordinates and a factor
ArithInit ==
    /\ input \in ArithInputs
    /\ round = 0
    /\ text = << >>
    /\ ls = << >>
    /\ idx = 0
    /\ pc = "arith"
    /\ comment = << >>
    /\ store = EmptyStore
    /\ header = None
    /\ eoh = 0
    /\ rno = 0
    /\ rows = << >>
    /\ result = None
    /\ valid = None
    /\ out = None
    /\ prev = None

\* an operation has returned r
Returned(op, r) ==
    /\ pc = "arith"
    /\ pc' = op
    /\ result' = Some(r)
    /\ UNCHANGED <<input, round, text, ls, idx, comment, store, header, eoh, rno, rows,
                   valid, out, prev>>

\* -a
Negate == \E r \in neg(input.tag.a) : Returned("neg", r)
\* a + b
AddCoords == Returned("add", add(input.tag.a, input.tag.b))
\* a - b
SubCoords == Returned("sub", sub(input.tag.a, input.tag.b))
\* a * n
Scale == Returned("mul", mul(input.tag.a, input.tag.n))
\* a_max - delta_a * nrow, the coordinate of a grid row
GridCoordinate ==
    /\ mul(input.tag.b, input.tag.n).ok
    /\ Returned("grid", sub(input.tag.a, mul(input.tag.b, input.tag.n).val))

ArithNext ==
    \/ Negate
    \/ AddCoords
    \/ SubCoords
    \/ Scale
    \/ GridCoordinate

ArithSpec == ArithInit /\ [][ArithNext]_vars
\* C21: adding or subtracting a DMS and a decimal coordinate, in either
\* order, fails as an unsupported operation and yields no value; adding or
\* subtracting two coordinates of one variant, and negating or scaling any
\* coordinate, yields a coordinate of the variant of the operand(s).
C21_VariantsOfArithmetic ==
    /\ (pc \in {"add", "sub"} /\ input.tag.a.tag # input.tag.b.tag) =>
            Unwrap(result) = Err([kind |-> "Unimplemented"])
    /\ (pc \in {"add", "sub"} /\ input.tag.a.tag = input.tag.b.tag) =>
            /\ Unwrap(result).ok
            /\ Unwrap(result).val.tag = input.tag.a.tag
    /\ pc \in {"neg", "mul"} =>
            /\ Unwrap(result).ok
            /\ Unwrap(result).val.tag = input.tag.a.tag
(***************************************************************************)
(* The accessors of Data (src/src/lib.rs).                                 *)
(***************************************************************************)
\* Data::grid_data
grid_data(self) ==
    IF self.variant = "Grid" THEN Ok(self.rows) ELSE Err(Panicked)

\* Data::sparse_data: both arms of the match panic
sparse_data(self) ==
    IF self.variant = "Grid" THEN Err(Panicked) ELSE Err(Panicked)

\* a caller asks the document for its grid rows
GridData ==
    /\ Parsed
    /\ pc' = "grid_data"
    /\ out' = Some(grid_data(Document.data))
    /\ UNCHANGED <<input, round, text, ls, idx, comment, store, header, eoh, rno, rows,
                   result, valid, prev>>

\* a caller asks the document for its sparse rows
SparseData ==
    /\ Parsed
    /\ pc' = "sparse_data"
    /\ out' = Some(sparse_data(Document.data))
    /\ UNCHANGED <<input, round, text, ls, idx, comment, store, header, eoh, rno, rows,
                   result, valid, prev>>

DataNext ==
    \/ GridData
    \/ SparseData

DataSpec == DocInit /\ [][DataNext]_vars

\* C22: grid_data returns the grid rows of a Data::Grid and panics only on a
\* Data::Sparse; sparse_data returns the sparse rows of a Data::Sparse and
\* panics only on a Data::Grid.
C22_Accessors ==
    /\ pc = "grid_data" =>
          Unwrap(out) = (IF Document.data.variant = "Grid"
                         THEN Ok(Document.data.rows) ELSE Err(Panicked))
    /\ pc = "sparse_data" =>
          Unwrap(out) = (IF Document.data.variant = "Sparse"
                         THEN Ok(Document.data.rows) ELSE Err(Panicked))
(***************************************************************************)
(* Space padding.                                                          *)
(***************************************************************************)
\* the coordinate written CoordLit(units, n)
PadCoord(units, n) ==
    IF units = "DMS" THEN DMS(n, 0, 0) ELSE Dec([neg |-> FALSE, int |-> n, frac |-> 0])

\* the document of the texts of PadInputs, whatever their padding
PadDocument(data_format, coord_type, units) ==
    LET c(n) == PadCoord(units, n)
        four == [variant |-> data_format \o coord_type,
                 min1 |-> c(1), max1 |-> c(2), min2 |-> c(3), max2 |-> c(4)]
        clean == [isg |-> FALSE, variant |-> FALSE, bounds |-> {}, nrows |-> FALSE,
                  ncols |-> FALSE, cells |-> {}, nodata |-> TRUE, absent |-> FALSE]
    IN  [comment |-> << >>,
         header |-> [DocHeader(data_format, <<coord_type, units>>, clean) EXCEPT
                        !.model_name = Some(<<"a", " ", "b">>),
                        !.nrows = 1,
                        !.ncols = IF data_format = "Grid" THEN 2 ELSE 3,
                        !.data_bounds =
                            IF data_format = "Grid"
                            THEN [f \in DOMAIN four \cup {"delta1", "delta2"} |->
                                     IF f \in {"delta1", "delta2"} THEN c(1) ELSE four[f]]
                            ELSE four],
         data |-> [variant |-> data_format,
                   rows |-> IF data_format = "Grid"
                            THEN <<<<Some([neg |-> FALSE, int |-> 1, frac |-> 0]),
                                     Some([neg |-> FALSE, int |-> 2, frac |-> 0])>>>>
                            ELSE <<<<c(1), c(2), [neg |-> FALSE, int |-> 3, frac |-> 0]>>>>]]

FirstProblem(ds) ==
    CHOOSE d \in ds : \A e \in ds : d.stage * 100 + d.at <= e.stage * 100 + e.at

\* err is the report of problem d of the text of in
Reports(err, d, in) ==
    CASE d.stage = 1 -> err = missing_boh
      [] d.stage = 2 ->
            /\ err.kind = (CASE d.what = "sep" -> "MissingSeparator"
                             [] d.what = "key" -> "UnknownHeaderKey"
                             [] OTHER -> "DuplicatedHeaderKey")
            /\ err.lineno = Some(IF d.at = 1 THEN 3 ELSE 1 + Len(in.lines))
      [] d.stage = 3 -> err = missing_eoh
      [] d.stage = 4 ->
            /\ err.kind = "InvalidHeaderValue"
            /\ err.field = ValueOrder[d.at]
      [] OTHER ->
            /\ err.kind = "InvalidData"
            /\ err.value = <<"x">>
            /\ err.lineno = Some(2 + Len(in.lines) + (IF d.at = 3 THEN 2 ELSE 1))
            /\ Unwrap(err.span)[1] = (IF d.at = 2 THEN 1 ELSE 0)

\* C24: from_str reports the first problem in the order of its stages: no
\* begin_of_head line; header lines in input order (missing separator,
\* unknown key, duplicated key); the input ends before end_of_head; header
\* values in the order of the fields; data rows in input order, cell by cell.
C24_FirstProblemInPipelineOrder ==
    (round = 0 /\ input.fam = "order" /\ pc = "done") =>
        /\ ~Unwrap(result).ok
        /\ Reports(Unwrap(result).err, FirstProblem(input.tag.problems), input)

\* a text with a bad header value on an early line and a bad header line
\* after it, or with a bad header value and a bad cell, was refused
C24_Witness ==
    /\ round = 0 /\ input.fam = "order" /\ pc = "done"
    /\ \E a \in input.tag.problems, b \in input.tag.problems :
          /\ a.stage = 4
          /\ \/ b.stage = 2 /\ b.at = 2 /\ Unwrap(result).err.kind = "MissingSeparator"
             \/ b.stage = 5 /\ Unwrap(result).err.kind = "InvalidHeaderValue"
(***************************************************************************)
(* The comment.                                                            *)
(***************************************************************************)
\* the text before the first line that starts with begin_of_head
Preamble(t) ==
    LET begins == {st \in LineStarts(t) : StartsWith(SubSeq(t, st, Len(t)), BEGIN_OF_HEAD)}
    IN  SubSeq(t, 1, (CHOOSE st \in begins : \A o \in begins : st <= o) - 1)

\* C25: the parsed comment is the input text before the first line starting
\* with begin_of_head, line terminators (LF or CRLF) included, and empty when
\* the first line is the marker; serialization writes a comment that ends
\* with a newline back unchanged and nothing for an empty comment.
C25_CommentVerbatim ==
    /\ (round = 0 /\ pc # "comment" /\ BeginLine(ls) # 0) => comment = Preamble(text)
    /\ (IsSome(out) /\ pc = "done") =>
          /\ Document.comment = << >> => StartsWith(Unwrap(out), BOH_LINE)
          /\ (Document.comment # << >> /\ Document.comment[Len(Document.comment)] = "LF") =>
                StartsWith(Unwrap(out), Document.comment \o BOH_LINE)
(***************************************************************************)
(* The variant of the data against the data format of the header.          *)
(***************************************************************************)
\* C26: a document that validate accepts has data of the variant its header
\* announces (Data::Grid with grid, Data::Sparse with sparse), so it is never
\* serialized with a header of one data format and a body of the other.
C26_ValidDataMatchesFormat ==
    (IsSome(valid) /\ Unwrap(valid).ok) =>
        Document.data.variant = Document.header.data_format
(***************************************************************************)
(* DMS arithmetic against arithmetic on seconds.                           *)
(***************************************************************************)
\* a DMS coordinate with a degree of zero or more and minutes and seconds
\* in 0..59
Sexagesimal(c) ==
    c.tag = "DMS" /\ c.degree >= 0 /\ c.minutes \in 0..59 /\ c.second \in 0..59
ToSeconds(c) == c.degree * 3600 + c.minutes * 60 + c.second
OfSeconds(t) == DMS(t \div 3600, (t % 3600) \div 60, t % 60)
\* the degree of t seconds is one of an i16
FitsDegree(t) == t >= 0 /\ t \div 3600 <= 32767

\* C27: on DMS coordinates with degree >= 0 and minutes and seconds in
\* 0..59, a + b, a - b (a not smaller than b) and a * n are the operation on
\* total seconds converted back, with minutes and seconds in 0..59 again,
\* when the degree fits an i16; so max - delta * k is the k-th coordinate
\* of a grid counted from max.
C27_DMSArithmeticBySeconds ==
    LET a == input.tag.a
        b == input.tag.b
        n == input.tag.n
        IsSeconds(t) ==
            /\ Unwrap(result) = Ok(OfSeconds(t))
            /\ Sexagesimal(Unwrap(result).val)
    IN  /\ (pc = "add" /\ Sexagesimal(a) /\ Sexagesimal(b)
               /\ FitsDegree(ToSeconds(a) + ToSeconds(b))) =>
                IsSeconds(ToSeconds(a) + ToSeconds(b))
        /\ (pc = "sub" /\ Sexagesimal(a) /\ Sexagesimal(b)
               /\ ToSeconds(a) >= ToSeconds(b)) =>
                IsSeconds(ToSeconds(a) - ToSeconds(b))
        /\ (pc = "mul" /\ Sexagesimal(a) /\ FitsDegree(ToSeconds(a) * n)) =>
                IsSeconds(ToSeconds(a) * n)
        /\ (pc = "grid" /\ Sexagesimal(a) /\ Sexagesimal(b)
               /\ FitsDegree(ToSeconds(b) * n)
               /\ ToSeconds(a) >= ToSeconds(b) * n) =>
                IsSeconds(ToSeconds(a) - ToSeconds(b) * n)

\* the third row below 2°00'00" of a grid of step 0°30'30" was computed,
\* with a borrow from the degree
C27_Witness ==
    /\ pc = "grid"
    /\ input.tag.a = DMS(2, 0, 0) /\ input.tag.b = DMS(0, 30, 30) /\ input.tag.n = 3
    /\ Unwrap(result) = Ok(DMS(0, 28, 30))
(***************************************************************************)
(* Scaling against repeated addition.                                      *)
(***************************************************************************)
\* C28: scaling a coordinate agrees with repeated addition, also for DMS
\* values with a negative degree and non-zero minutes or seconds:
\* a * 2 = a + a and a * (n + 1) = a * n + a.
C28_ScaleIsRepeatedAdd ==
    pc = "mul" =>
        /\ input.tag.n = 2 =>
              CoordCanon(Unwrap(result).val)
                  = CoordCanon(add(input.tag.a, input.tag.a).val)
        /\ CoordCanon(mul(input.tag.a, input.tag.n + 1).val)
              = CoordCanon(add(Unwrap(result).val, input.tag.a).val)
(***************************************************************************)
(* The text of a ParseError (src/src/error.rs).                            *)
(***************************************************************************)
\* ParseError::is_syntax
is_syntax(self) ==
    self.kind \in {"MissingBeginOfHead", "MissingEndOfHead", "MissingSeparator"}

\* ParseError::is_header_section
is_header_section(self) ==
    self.kind \in {"UnknownHeaderKey", "MissingHeaderKey", "DuplicatedHeaderKey",
                   "InvalidHeaderValue", "InvalidDataBounds"}

\* ParseError::is_data_section
is_data_section(self) == self.kind \in {"InvalidData", "InvalidDataLength"}

\* impl Display for ParseError: the kind's message with the line and the
\* columns the arm writes; an unwrap of an absent lineno or span panics
fmt(self) ==
    IF \/ self.kind \in {"MissingBeginOfHead", "MissingEndOfHead", "MissingHeaderKey"}
       \/ (self.kind = "InvalidDataLength" /\ self.direction = "Row")
    THEN Ok([message |-> self.kind, line |-> None, column |-> None])
    ELSE IF self.kind \in {"MissingSeparator", "InvalidDataBounds", "InvalidDataLength"}
    THEN IF ~IsSome(self.lineno) THEN Err(Panicked)
         ELSE Ok([message |-> self.kind, line |-> self.lineno, column |-> None])
    ELSE IF ~IsSome(self.lineno) \/ ~IsSome(self.span) THEN Err(Panicked)
    ELSE Ok([message |-> self.kind, line |-> self.lineno, column |-> self.span])

\* from_str returned a ParseError
Refused ==
    /\ pc = "done"
    /\ IsSome(result)
    /\ ~Unwrap(result).ok
    /\ Unwrap(result).err # Panicked

\* C29: every ParseError that parse returns holds the line number, and
\* where its message names columns the span, that its message needs, so
\* formatting it never meets an absent line number or span; and every such
\* error is exactly one of syntax, header-section and data-section.
C29_ErrorsCanBeFormatted ==
    Refused =>
        LET e == Unwrap(result).err
        IN  /\ fmt(e).ok
            /\ e.kind \in {"MissingSeparator", "InvalidDataBounds"} => IsSome(e.lineno)
            /\ (e.kind = "InvalidDataLength" /\ e.direction = "Column") => IsSome(e.lineno)
            /\ e.kind \in {"UnknownHeaderKey", "DuplicatedHeaderKey", "InvalidHeaderValue",
                           "InvalidData"} => (IsSome(e.lineno) /\ IsSome(e.span))
            /\ Cardinality({p \in {"syntax", "header", "data"} :
                               \/ p = "syntax" /\ is_syntax(e)
                               \/ p = "header" /\ is_header_section(e)
                               \/ p = "data" /\ is_data_section(e)}) = 1

\* an error of each of the three groups that carry a position was returned
\* and formatted with it
C29_Witness ==
    /\ Refused
    /\ Unwrap(result).err.kind \in {"InvalidDataBounds", "InvalidData", "InvalidDataLength"}
    /\ fmt(Unwrap(result).err).ok
    /\ IsSome(fmt(Unwrap(result).err).val.line)
(***************************************************************************)
(* The ranges of a DMS literal.                                            *)
(***************************************************************************)
\* C30: a literal <degree>°<minutes>'<seconds>" is accepted whenever the
\* degree is in -32768..32767 and minutes and seconds are in 0..255, and
\* stored unchanged (minutes and seconds of 60..255 included); a degree
\* outside 16 bits, or minutes or seconds above 255 or negative, are
\* refused as an invalid value.
C30_DMSRanges ==
    (round = 0 /\ input.fam = "dms" /\ pc = "done") =>
        IF /\ input.tag.degree \in -32768..32767
           /\ input.tag.minutes \in 0..255
           /\ input.tag.second \in 0..255
        THEN /\ Unwrap(result).ok
             /\ Document.header.data_bounds.min1
                   = DMS(input.tag.degree, input.tag.minutes, input.tag.second)
        ELSE /\ ~Unwrap(result).ok
             /\ Unwrap(result).err.kind = "InvalidHeaderValue"
             /\ Unwrap(result).err.field = "LatMin"

\* the literal 0°60'255" was parsed and stored as it stands
C30_Witness ==
    /\ round = 0 /\ input.fam = "dms" /\ pc = "done"
    /\ Unwrap(result).ok
    /\ Document.header.data_bounds.min1 = DMS(0, 60, 255)
====
